---- MODULE Spec2Model ----
(***************************************************************************)
(* A model of the reinforcement-learning trading loop of the repository:   *)
(* the tabular agent of rl_agent.py (QLearningAgent) and the decision loop *)
(* of bot.py (AlpacaTradingBot.trading_strategy / backtest).               *)
(*                                                                         *)
(* Numbers.  The program computes with floats.  The model computes with    *)
(* integers that count thousandths: 0.1 is 100, a price of 100.0 is        *)
(* 100000.  A product of two such numbers is rounded to the nearest        *)
(* thousandth (Mul), as a float product is rounded to the nearest float.   *)
(***************************************************************************)
EXTENDS Integers, Sequences, FiniteSets, TLC

VARIABLES
    agent,      \* the QLearningAgent object: its fields, by their names
    fs,         \* the files under model_path: the fixed file, the versioned files
    now,        \* the clock that datetime.now() reads, in seconds
    pushed,     \* every transition handed to remember() so far, oldest first
    last,       \* the last call of an agent method, its inputs and its result
    mode,       \* how the process was started: "live" (run) or "backtest"
    bot,        \* the AlpacaTradingBot object: its entry_price field
    broker,     \* the account at the broker: the shares it holds of the symbol
    bt,         \* the locals of backtest(): position, entry_price, the bar index
    tick,       \* the last tick of the decision loop: what it saw and did
    loop,       \* the loop of run(): where it stands, what it went through
    tb          \* the TradingBot object of core/bot.py and its risk manager

botVars == <<mode, bot, broker, bt, tick, loop, tb>>

vars == <<agent, fs, now, pushed, last, mode, bot, broker, bt, tick, loop, tb>>

-----------------------------------------------------------------------------
(* Fixed-point arithmetic standing for the program's floats.               *)

Scale == 10 * 10 * 10

\* n/d rounded to the nearest integer
RoundDiv(n, d) == (2 * n + d) \div (2 * d)

\* the product of two numbers in thousandths, in thousandths
Mul(a, b) == RoundDiv(a * b, Scale)

Max2(a, b) == IF a >= b THEN a ELSE b

-----------------------------------------------------------------------------
(* Bounds of the model.                                                    *)

\* calls of remember() in one behaviour
MaxCalls == 3

\* replay_capacity and batch_size are drawn from 1..MaxCapacity
MaxCapacity == 2

\* the clock runs from 1 to MaxClock
MaxClock == 2

\* calls of remember() in a behaviour that saves and loads
MaxSavedCalls == 1

-----------------------------------------------------------------------------
(* config.py: the hyperparameters the bot constructs its agent with.       *)

QL_ALPHA == 100
QL_GAMMA == 950
QL_EPSILON == 1000
QL_EPSILON_MIN == 10
QL_EPSILON_DECAY == 995

\* action_size: the bot's actions are 0 hold, 1 buy, 2 sell
ActionSize == 3

Actions == 0 .. (ActionSize - 1)

-----------------------------------------------------------------------------
(* The inputs of the agent's methods.                                      *)

\* State vectors [short_ma, long_ma, position, momentum, rsi, volatility,
\* time_of_day].  SLong and SAlias differ by 0.004 in momentum only.
SFlat  == <<100000, 100000, 0,    0, 50000, 0, 9500>>
SLong  == <<100000, 100000, 1000, 0, 50000, 0, 9500>>
SAlias == <<100000, 100000, 1000, 4, 50000, 0, 9500>>

StateVectors == {SFlat, SLong, SAlias}

Transition(s, a, r, ns, d) ==
    [state |-> s, action |-> a, reward |-> r, next_state |-> ns, done |-> d]

\* The transitions remember() is called with: a closing sell, a losing sell
\* whose state and next state share one key, and a terminal buy.
RememberInputs ==
    { Transition(SLong,  2,  5940, SFlat, FALSE),
      Transition(SAlias, 2, -2060, SLong, FALSE),
      Transition(SFlat,  1,   -60, SLong, TRUE) }

\* (epsilon, epsilon_min, epsilon_decay) the agent is constructed with: the
\* values of config.py, a fast decay, and no exploration at all.
EpsilonConfigs ==
    { <<QL_EPSILON, QL_EPSILON_MIN, QL_EPSILON_DECAY>>,
      <<1000, 300, 500>>,
      <<0, 0, 995>> }

\* np.random.rand() returns a float of [0, 1): 0.0 is one of its outcomes
Draws == {0, 500}


-----------------------------------------------------------------------------
(* rl_agent.py                                                             *)

\* (a rounding that drops the third decimal)
Round2_truncates(x) == 10 * (x \div 10)

\* np.round(x, 2): to the nearest hundredth, halves to the even hundredth
Round2(x) ==
    LET q == x \div 10
        r == x % 10
    IN  IF r < 5 THEN 10 * q
        ELSE IF r > 5 THEN 10 * (q + 1)
        ELSE IF q % 2 = 0 THEN 10 * q ELSE 10 * (q + 1)

get_state_key(state) == [i \in DOMAIN state |-> Round2(state[i])]

\* np.zeros(action_size)
Zeros == [a \in Actions |-> 0]

\* np.max(row)
RowMax(row) == CHOOSE m \in {row[a] : a \in Actions} :
                   \A a \in Actions : row[a] <= m

\* (an argmax that counts the row's entries from 1)
ArgMaxOneBased(row) == 1 + (CHOOSE a \in Actions :
                   /\ row[a] = RowMax(row)
                   /\ \A b \in Actions : b < a => row[b] < row[a])

\* np.argmax(row): the first index holding the maximum
ArgMax(row) == CHOOSE a \in Actions :
                   /\ row[a] = RowMax(row)
                   /\ \A b \in Actions : b < a => row[b] < row[a]

\* __init__ up to its call of load(): an empty table, an empty buffer
NewAgent(alpha, gamma, eps, cap, batch) ==
    [ alpha |-> alpha, gamma |-> gamma,
      epsilon |-> eps[1], epsilon_min |-> eps[2], epsilon_decay |-> eps[3],
      q_table |-> <<>>, replay_buffer |-> <<>>,
      replay_capacity |-> cap, batch_size |-> batch ]

\* act(state), with u the outcome of np.random.rand() and r the outcome of
\* random.randrange(action_size)
act(self, state, u, r) ==
    LET state_key == get_state_key(state)
    IN  IF u <= self.epsilon \/ state_key \notin DOMAIN self.q_table
        THEN r
        ELSE ArgMax(self.q_table[state_key])

\* a table with the row of key k present (zeros when it was absent)
WithRow(q, k) ==
    IF k \in DOMAIN q THEN q
    ELSE [x \in DOMAIN q \cup {k} |-> IF x = k THEN Zeros ELSE q[x]]

\* (an update that adds the bootstrap term whatever `done` is)
td_update_always_bootstraps(self, q, t) ==
    LET state_key == get_state_key(t.state)
        next_state_key == get_state_key(t.next_state)
        q2 == WithRow(WithRow(q, state_key), next_state_key)
        target == t.reward + Mul(self.gamma, RowMax(q2[next_state_key]))
        old == q2[state_key][t.action]
    IN  [q2 EXCEPT ![state_key][t.action] = old + Mul(self.alpha, target - old)]

\* one iteration of the loop of replay_train()
td_update(self, q, t) ==
    LET state_key == get_state_key(t.state)
        next_state_key == get_state_key(t.next_state)
        q2 == WithRow(WithRow(q, state_key), next_state_key)
        target == IF t.done THEN t.reward
                  ELSE t.reward + Mul(self.gamma, RowMax(q2[next_state_key]))
        old == q2[state_key][t.action]
    IN  [q2 EXCEPT ![state_key][t.action] = old + Mul(self.alpha, target - old)]

\* the tables the loop of replay_train() goes through: the table it starts
\* from, then the table after each transition of the minibatch
RECURSIVE td_trace(_, _, _)
td_trace(self, q, minibatch) ==
    IF minibatch = <<>> THEN <<q>>
    ELSE <<q>> \o td_trace(self, td_update(self, q, Head(minibatch)), Tail(minibatch))

\* The random source of random.sample(): an order of the buffer's positions,
\* of which a sample of k takes the first k.
Orders(n) ==
    { p \in [1 .. n -> 1 .. n] : \A i, j \in 1 .. n : i # j => p[i] # p[j] }

\* (a sampling that may take one position of the buffer again)
sample_positions_repeats(k, perm) == [i \in 1 .. k |-> perm[1]]

\* the positions of the buffer random.sample() takes, in the order it
\* returns them: k different ones
sample_positions(k, perm) == [i \in 1 .. k |-> perm[i]]

\* random.sample(self.replay_buffer, k)
random_sample(self, k, perm) ==
    [i \in 1 .. k |-> self.replay_buffer[sample_positions(k, perm)[i]]]

Min2(a, b) == IF a <= b THEN a ELSE b

\* (a training that samples what the buffer holds, below batch_size too)
train_tables_no_threshold(self, perm) ==
    td_trace(self, self.q_table,
             random_sample(self, Min2(self.batch_size, Len(self.replay_buffer)), perm))

\* the tables replay_train() goes through: one table when it returns at its
\* threshold, else those of its loop over the minibatch
train_tables(self, perm) ==
    IF Len(self.replay_buffer) < self.batch_size THEN <<self.q_table>>
    ELSE td_trace(self, self.q_table, random_sample(self, self.batch_size, perm))

\* replay_train()
replay_train(self, perm) ==
    LET tables == train_tables(self, perm)
    IN  [self EXCEPT !.q_table = tables[Len(tables)]]

\* (an append that evicts the newest entry)
push_newest_evicted(self, t) ==
    LET buf == self.replay_buffer
    IN  IF Len(buf) >= self.replay_capacity
        THEN Append(SubSeq(buf, 1, Len(buf) - 1), t)
        ELSE Append(buf, t)

\* the buffer after the append of remember()
push(self, t) ==
    LET buf == self.replay_buffer
    IN  IF Len(buf) >= self.replay_capacity
        THEN Append(Tail(buf), t)
        ELSE Append(buf, t)

\* the epsilon decay that ends remember()
decay(self) ==
    IF self.epsilon > self.epsilon_min
    THEN Mul(self.epsilon, self.epsilon_decay)
    ELSE self.epsilon

\* remember(state, action, reward, next_state, done)
remember(self, t, perm) ==
    LET stored == [self EXCEPT !.replay_buffer = push(self, t)]
        trained == replay_train(stored, perm)
    IN  [trained EXCEPT !.epsilon = decay(trained)]

\* A path of the file system holds no file, or one file with a pickled table.
NoFile == <<>>
File(q) == <<q>>

\* A file that pickle.load() cannot read (cut short, or not a pickle): two
\* entries where a pickled table is one.
Corrupt == <<<<>>, <<>>>>

\* the timestamps of sorted(glob.glob(model_path.replace('.pkl', '_*.pkl')));
\* a timestamp is written '%Y%m%d_%H%M%S', fixed in width, so that the
\* sorted order of the names is the order of the timestamps
VersionedFiles(files) == DOMAIN files.versioned

\* the digits, in the order of their code points
DigitChars == <<"0", "1", "2", "3", "4", "5", "6", "7", "8", "9">>

\* the position of character c in seq, 0 when it is not there
IndexIn(c, seq) ==
    IF \E i \in DOMAIN seq : seq[i] = c
    THEN CHOOSE i \in DOMAIN seq : seq[i] = c
    ELSE 0

\* datetime.now() when the run starts, in seconds after the hour: the clock
\* value `now` stands for the instant ClockStart + now, so that the run
\* passes from second 9 to second 10
ClockStart == 8

\* (a timestamp whose fields are written without leading zeros)
strftime_unpadded(ts) ==
    LET plain(n) == IF n < 10 THEN <<DigitChars[n + 1]>>
                    ELSE <<DigitChars[(n \div 10) + 1], DigitChars[(n % 10) + 1]>>
        t == ClockStart + ts
    IN  plain((t \div 60) % 60) \o plain(t % 60)

\* strftime('%Y%m%d_%H%M%S') of the instant ts: its fields %M and %S, each
\* two digits with a leading zero (the fields before them are those of the
\* same hour in every name of a run)
strftime(ts) ==
    LET pad2(n) == <<DigitChars[(n \div 10) + 1], DigitChars[(n % 10) + 1]>>
        t == ClockStart + ts
    IN  pad2((t \div 60) % 60) \o pad2(t % 60)

\* a <= b in the order sorted() puts strings in: by the code points of their
\* characters, a prefix before its extensions
RECURSIVE str_leq(_, _)
str_leq(a, b) ==
    IF a = <<>> THEN TRUE
    ELSE IF b = <<>> THEN FALSE
    ELSE IF Head(a) = Head(b) THEN str_leq(Tail(a), Tail(b))
    ELSE IndexIn(Head(a), DigitChars) < IndexIn(Head(b), DigitChars)

\* files[-1] of the sorted names: the instant whose name sorts last
LatestOf(T) == CHOOSE x \in T : \A y \in T : str_leq(strftime(y), strftime(x))

\* save(versioned) at clock value ts: the files after it
save(self, versioned, files, ts) ==
    IF versioned
    THEN [files EXCEPT !.versioned =
             [x \in DOMAIN files.versioned \cup {ts} |->
                 IF x = ts THEN File(self.q_table) ELSE files.versioned[x]]]
    ELSE [files EXCEPT !.fixed = File(self.q_table)]

\* save(versioned) cut short inside pickle.dump(), after open(path, 'wb')
\* truncated the file: the files after it
save_cut(self, versioned, files, ts) ==
    IF versioned
    THEN [files EXCEPT !.versioned =
             [x \in DOMAIN files.versioned \cup {ts} |->
                 IF x = ts THEN Corrupt ELSE files.versioned[x]]]
    ELSE [files EXCEPT !.fixed = Corrupt]

\* the content of the path load(versioned) settles on
load_path(versioned, files) ==
    IF versioned /\ VersionedFiles(files) # {}
    THEN files.versioned[LatestOf(VersionedFiles(files))]
    ELSE files.fixed

\* what load() finds at its path
file_state(content) ==
    IF content = NoFile THEN "missing"
    ELSE IF Len(content) = 1 THEN "found" ELSE "corrupt"

\* load() raises: os.path.exists(path) holds and pickle.load(f) fails, which
\* nothing in load() or __init__ catches
load_raises(versioned, files) ==
    file_state(load_path(versioned, files)) = "corrupt"

\* load(versioned): the agent after it; a pickle.load() that raises has
\* assigned nothing
load(self, versioned, files) ==
    LET content == load_path(versioned, files)
    IN  IF file_state(content) = "found"
        THEN [self EXCEPT !.q_table = content[1]]
        ELSE self

\* QLearningAgent(...) as the bot constructs it: __init__ with the
\* hyperparameters of the agent it replaces, ending in load()
construct(self, files) ==
    load(NewAgent(self.alpha, self.gamma,
                  <<QL_EPSILON, self.epsilon_min, self.epsilon_decay>>,
                  self.replay_capacity, self.batch_size),
         FALSE, files)

-----------------------------------------------------------------------------
(* The agent's methods as actions.                                         *)

Idle == [op |-> "none"]

\* (an act() that creates the row of a state it has not seen)
after_act_adds_row(self, state) ==
    [self EXCEPT !.q_table = WithRow(@, get_state_key(state))]

\* the agent after act(state): act() reads self.epsilon and self.q_table,
\* tests `state_key not in self.q_table` and assigns nothing
after_act(self, state) == self

Act ==
    \E state \in StateVectors, u \in Draws, r \in Actions :
        /\ last' = [op |-> "act", state |-> state, u |-> u, r |-> r,
                    result |-> act(agent, state, u, r)]
        /\ agent' = after_act(agent, state)
        /\ UNCHANGED <<fs, now, pushed>>
        /\ UNCHANGED botVars

\* A call of remember(): the agent after it, and the record of the call.
RememberCall(t, perm) ==
    LET stored == [agent EXCEPT !.replay_buffer = push(agent, t)]
        tables == train_tables(stored, perm)
    IN  /\ agent' = remember(agent, t, perm)
        /\ pushed' = Append(pushed, t)
        /\ last' = [op |-> "remember", t |-> t, before |-> agent,
                    minibatch |-> random_sample(stored, Len(tables) - 1, perm),
                    picked |-> sample_positions(Len(tables) - 1, perm),
                    tables |-> tables]

RememberUpTo(calls) ==
    /\ Len(pushed) < calls
    /\ \E t \in RememberInputs :
         \E perm \in Orders(Len(push(agent, t))) :
            /\ RememberCall(t, perm)
            /\ UNCHANGED <<fs, now>>
            /\ UNCHANGED botVars

Remember == RememberUpTo(MaxCalls)

\* the call that came just before, when it was a save()
PrecedingSave == IF last.op = "save" THEN last ELSE Idle

Save ==
    \E versioned \in BOOLEAN :
        /\ fs' = save(agent, versioned, fs, now)
        /\ last' = [op |-> "save", versioned |-> versioned, q_table |-> agent.q_table]
        /\ UNCHANGED <<agent, now, pushed>>
        /\ UNCHANGED botVars

\* The process is killed inside save(), after open(path, 'wb') truncated the
\* file and before pickle.dump() completed.
SaveCut ==
    \E versioned \in BOOLEAN :
        /\ fs' = save_cut(agent, versioned, fs, now)
        /\ last' = [op |-> "save_cut", versioned |-> versioned]
        /\ UNCHANGED <<agent, now, pushed>>
        /\ UNCHANGED botVars

Load ==
    \E versioned \in BOOLEAN :
        /\ agent' = load(agent, versioned, fs)
        /\ last' = [op |-> "load", versioned |-> versioned, follows |-> PrecedingSave,
                    file |-> file_state(load_path(versioned, fs)),
                    raised |-> load_raises(versioned, fs),
                    before |-> agent.q_table]
        /\ UNCHANGED <<fs, now, pushed>>
        /\ UNCHANGED botVars

\* The process starts again: a new agent object on the same model_path.  A
\* constructor that raises yields no object: the process ends there, and the
\* model keeps the agent as it was.
Construct ==
    /\ agent' = IF load_raises(FALSE, fs) THEN agent ELSE construct(agent, fs)
    /\ last' = [op |-> "construct", versioned |-> FALSE, follows |-> PrecedingSave,
                file |-> file_state(load_path(FALSE, fs)),
                raised |-> load_raises(FALSE, fs),
                before |-> <<>>]
    /\ UNCHANGED <<fs, now, pushed>>
    /\ UNCHANGED botVars

\* A second passes.
ClockTick ==
    /\ now < MaxClock
    /\ now' = now + 1
    /\ UNCHANGED <<agent, fs, pushed, last>>
    /\ UNCHANGED botVars

-----------------------------------------------------------------------------
(* SpecLearn: an agent constructed with no file on disk, then any calls of  *)
(* act() and remember().                                                    *)

InitFiles ==
    /\ fs = [fixed |-> NoFile, versioned |-> <<>>]
    /\ now = 1

\* Python's None, and a value that is not None
None == <<>>
Some(x) == <<x>>

NoTick == [kind |-> "none"]

\* run() not entered
NoLoop == [pc |-> "off"]

\* what the handling of the last signal did
NoHandling == [kind |-> "none"]

\* TradingBot.__init__ and RiskManager.__init__
NewTradingBot ==
    [ active_positions |-> <<>>, daily_losses |-> 0, handled |-> 0,
      last |-> NoHandling ]

\* A bot just constructed, at a broker account that holds no share.
InitBot ==
    /\ bot = [entry_price |-> None]
    /\ broker = [qty |-> 0]
    /\ bt = [position |-> 0, entry_price |-> None, i |-> 0]
    /\ tick = NoTick
    /\ loop = NoLoop
    /\ tb = NewTradingBot

InitLearn ==
    /\ \E eps \in EpsilonConfigs, cap \in 1 .. MaxCapacity, batch \in 1 .. MaxCapacity :
          agent = NewAgent(QL_ALPHA, QL_GAMMA, eps, cap, batch)
    /\ InitFiles
    /\ InitBot
    /\ mode = "live"
    /\ pushed = <<>>
    /\ last = Idle

NextLearn == Act \/ Remember

SpecLearn == InitLearn /\ [][NextLearn]_vars

-----------------------------------------------------------------------------
(* The replay buffer and the learning step (SpecLearn).                     *)

\* the value table t holds for key k and action a, 0 for a row it has not
Val(q, k, a) == IF k \in DOMAIN q THEN q[k][a] ELSE 0

\* the largest value table q holds in the row of key k
BestOf(q, k) == CHOOSE m \in {Val(q, k, a) : a \in Actions} :
                    \A a \in Actions : Val(q, k, a) <= m

\* C1: the replay buffer never holds more than replay_capacity transitions,
\* and after any number of remember() calls it holds the replay_capacity
\* most recently stored transitions (all of them while fewer were stored),
\* oldest first.
C1_BufferHoldsMostRecent ==
    LET n == Len(pushed)
        C == agent.replay_capacity
    IN  /\ Len(agent.replay_buffer) <= C
        /\ agent.replay_buffer = SubSeq(pushed, Max2(1, n - C + 1), n)

\* C1 witness: more transitions were stored than the buffer holds, and an
\* evicted one differs from the ones kept.
C1_Witness ==
    /\ Len(pushed) > agent.replay_capacity
    /\ agent.replay_capacity >= 2
    /\ pushed[1] # pushed[Len(pushed)]
    /\ pushed[1] # agent.replay_buffer[1]

\* C5: each update of a sampled transition (s, a, r, s2, done) leaves a table
\* whose rows are the rows before it plus those of s and s2, in which the
\* entry of (s, a) is old + alpha * (target - old), target being r when done
\* and r + gamma * (the largest value of the row of s2) otherwise, and every
\* other entry is what it was (0 in a row just created).
C5_TdUpdateRule ==
    last.op = "remember" =>
        \A i \in 1 .. Len(last.minibatch) :
            LET t == last.minibatch[i]
                pre == last.tables[i]
                post == last.tables[i + 1]
                s == get_state_key(t.state)
                s2 == get_state_key(t.next_state)
                old == Val(pre, s, t.action)
                target == IF t.done THEN t.reward
                          ELSE t.reward + Mul(agent.gamma, BestOf(pre, s2))
            IN  /\ DOMAIN post = DOMAIN pre \cup {s, s2}
                /\ \A k \in DOMAIN post : \A a \in Actions :
                      post[k][a] = IF k = s /\ a = t.action
                                   THEN old + Mul(agent.alpha, target - old)
                                   ELSE Val(pre, k, a)

\* C5 witness: a batch of two updates, one of a terminal transition whose
\* next state has a non-zero row, and one that bootstraps from a non-zero row.
C5_Witness ==
    /\ last.op = "remember"
    /\ Len(last.minibatch) = 2
    /\ last.tables[3] = agent.q_table
    /\ \E i \in 1 .. 2 :
          /\ last.minibatch[i].done
          /\ BestOf(last.tables[i], get_state_key(last.minibatch[i].next_state)) # 0
    /\ \E i \in 1 .. 2 :
          /\ ~last.minibatch[i].done
          /\ BestOf(last.tables[i], get_state_key(last.minibatch[i].next_state)) # 0
          /\ Val(last.tables[i], get_state_key(last.minibatch[i].state),
                 last.minibatch[i].action) # 0

\* C6: a remember() that leaves the buffer shorter than batch_size leaves the
\* value table as it was, and the buffer ends with the transition it was
\* given.
C6_NoLearningBelowBatch ==
    (last.op = "remember" /\ Len(agent.replay_buffer) < agent.batch_size) =>
        /\ agent.q_table = last.before.q_table
        /\ Len(agent.replay_buffer) >= 1
        /\ agent.replay_buffer[Len(agent.replay_buffer)] = last.t

\* C6 witness: a remember() below the batch threshold, with an earlier
\* transition already in the buffer.
C6_Witness ==
    /\ last.op = "remember"
    /\ Len(agent.replay_buffer) < agent.batch_size
    /\ Len(last.before.replay_buffer) >= 1

\* C7: every remember() sets epsilon to max(epsilon_min, epsilon *
\* epsilon_decay), and epsilon, which starts at or above epsilon_min, is
\* never below epsilon_min.
C7_EpsilonFloor ==
    /\ last.op = "remember" =>
          agent.epsilon = Max2(agent.epsilon_min,
                               Mul(last.before.epsilon, agent.epsilon_decay))
    /\ agent.epsilon >= agent.epsilon_min

\* C8: with epsilon = 0 and the state's key in the value table, act() returns
\* the first index of the row's maximum, whatever the random draws are.
C8_GreedyAtEpsilonZero ==
    (/\ last.op = "act"
     /\ agent.epsilon = 0
     /\ get_state_key(last.state) \in DOMAIN agent.q_table) =>
        LET row == agent.q_table[get_state_key(last.state)]
        IN  /\ \A a \in Actions : row[a] <= row[last.result]
            /\ \A a \in Actions : a < last.result => row[a] < row[last.result]

\* C9: act() returns 0 (hold), 1 (buy) or 2 (sell).
C9_ActionInRange ==
    last.op = "act" => last.result \in {0, 1, 2}

\* C9 witness: act() took the row's maximum, which stands at the last index,
\* and in another case drew its action at random.
C9_Witness ==
    /\ last.op = "act"
    /\ last.u > agent.epsilon
    /\ get_state_key(last.state) \in DOMAIN agent.q_table
    /\ last.result = 2
    /\ agent.q_table[get_state_key(last.state)][2] > 0

\* C30: the value table changes through TD updates only.  act() leaves the
\* table, the replay buffer and epsilon as they were, and gives no row to a
\* state whose key is absent; remember() takes the table from what it was to
\* what it is through the updates of the transitions it sampled from the
\* buffer, so that an entry which changed is the entry (state, action) of a
\* sampled transition and a row which appeared is that of the state or next
\* state of one.
C30_TableFrame ==
    /\ [][last'.op = "act" => agent' = agent]_vars
    /\ [](last.op = "remember" =>
            LET before == last.before.q_table
                after == agent.q_table
                n == Len(last.minibatch)
                sampled(k, a) == \E i \in 1 .. n :
                                    /\ get_state_key(last.minibatch[i].state) = k
                                    /\ last.minibatch[i].action = a
            IN  /\ \A i \in 1 .. n : \E j \in DOMAIN agent.replay_buffer :
                      agent.replay_buffer[j] = last.minibatch[i]
                /\ last.tables[1] = before
                /\ last.tables[n + 1] = after
                /\ \A i \in 1 .. n :
                      last.tables[i + 1] =
                          td_update(last.before, last.tables[i], last.minibatch[i])
                /\ DOMAIN after =
                      DOMAIN before
                      \cup {get_state_key(last.minibatch[i].state) : i \in 1 .. n}
                      \cup {get_state_key(last.minibatch[i].next_state) : i \in 1 .. n}
                /\ \A k \in DOMAIN after : \A a \in Actions :
                      after[k][a] # Val(before, k, a) => sampled(k, a))

\* C30 witness: act() was called on a state whose key has no row in a table
\* that has rows, and the table has no row for it after the call.
C30_Witness ==
    /\ last.op = "act"
    /\ agent.q_table # <<>>
    /\ get_state_key(last.state) \notin DOMAIN agent.q_table
    /\ agent.replay_buffer # <<>>

\* C31: a remember() that leaves the buffer with at least batch_size entries
\* applies exactly batch_size updates, those of batch_size different
\* positions of the buffer, one after the other on the agent's own table:
\* each update starts from the table the update before it left, and the
\* table the last one leaves is the agent's table.
C31_BatchOfUpdates ==
    (last.op = "remember" /\ Len(agent.replay_buffer) >= agent.batch_size) =>
        LET n == agent.batch_size
        IN  /\ Len(last.minibatch) = n
            /\ Len(last.picked) = n
            /\ Len(last.tables) = n + 1
            /\ \A i \in 1 .. n :
                  /\ last.picked[i] \in DOMAIN agent.replay_buffer
                  /\ last.minibatch[i] = agent.replay_buffer[last.picked[i]]
            /\ \A i, j \in 1 .. n : i # j => last.picked[i] # last.picked[j]
            /\ last.tables[1] = last.before.q_table
            /\ \A i \in 1 .. n :
                  last.tables[i + 1] =
                      td_update(last.before, last.tables[i], last.minibatch[i])
            /\ last.tables[n + 1] = agent.q_table

\* C31 witness: a batch of two updates whose second one gives its entry a
\* value it would not have given it on the table the batch started from.
C31_Witness ==
    /\ last.op = "remember"
    /\ agent.batch_size = 2
    /\ Len(last.minibatch) = 2
    /\ last.picked[1] # last.picked[2]
    /\ LET t == last.minibatch[2]
           k == get_state_key(t.state)
       IN  td_update(last.before, last.tables[1], t)[k][t.action]
               # agent.q_table[k][t.action]

\* C32: the constructor rejects invalid hyperparameters, so an agent that
\* exists and is handed a transition has a replay_capacity and a batch_size
\* of at least 1, a batch_size no larger than its replay_capacity, epsilon
\* and epsilon_min within [0, 1] and epsilon_decay within (0, 1].
C32_InvalidConfigRejected ==
    last.op = "remember" =>
        /\ agent.replay_capacity >= 1
        /\ agent.batch_size >= 1
        /\ agent.batch_size <= agent.replay_capacity
        /\ last.before.epsilon >= 0 /\ last.before.epsilon <= Scale
        /\ agent.epsilon_min >= 0 /\ agent.epsilon_min <= Scale
        /\ agent.epsilon_decay > 0 /\ agent.epsilon_decay <= Scale

-----------------------------------------------------------------------------
(* SpecPersist: the agent the bot constructs, its table learnt, saved and   *)
(* loaded, by this agent object and by the one a restart constructs.        *)

InitPersist ==
    /\ agent = NewAgent(QL_ALPHA, QL_GAMMA,
                        <<QL_EPSILON, QL_EPSILON_MIN, QL_EPSILON_DECAY>>, 1, 1)
    /\ InitFiles
    /\ InitBot
    /\ mode = "live"
    /\ pushed = <<>>
    /\ last = Idle

RememberThenSaved == RememberUpTo(MaxSavedCalls)

NextPersist == RememberThenSaved \/ Save \/ SaveCut \/ Load \/ Construct \/ ClockTick

SpecPersist == InitPersist /\ [][NextPersist]_vars

\* C10: a load() that comes right after a save(), by the same agent object or
\* by a new one constructed on the same model_path, leaves in memory exactly
\* the table that was saved.
C10_SaveLoadRoundTrip ==
    (last.op \in {"load", "construct"} /\ last.follows.op = "save") =>
        agent.q_table = last.follows.q_table

\* C16: a load() that finds its file missing or unreadable raises nothing and
\* leaves the value table as it was, which for the load() that ends the
\* construction of an agent is the empty table.
C16_ColdStartOnBadFile ==
    (last.op \in {"load", "construct"} /\ last.file \in {"missing", "corrupt"}) =>
        /\ ~last.raised
        /\ agent.q_table = last.before
        /\ last.op = "construct" => agent.q_table = <<>>

\* the instant of the chronologically latest versioned save that left a file
Newest(files) == CHOOSE x \in DOMAIN files.versioned :
                     \A y \in DOMAIN files.versioned : y <= x

\* C28: load(versioned=True) after versioned saves restores the table of the
\* chronologically latest of them, the file whose name sorts last being the
\* most recent one; and with no file on disk it leaves the table as it was.
C28_LoadsLatestVersion ==
    (last.op = "load" /\ last.versioned) =>
        IF DOMAIN fs.versioned # {}
        THEN file_state(fs.versioned[Newest(fs)]) = "found" =>
                /\ ~last.raised
                /\ agent.q_table = fs.versioned[Newest(fs)][1]
        ELSE fs.fixed = NoFile =>
                /\ ~last.raised
                /\ agent.q_table = last.before

\* C28 witness: two versioned files, written at second 9 and at second 10
\* with different tables, and a load that replaced the table in memory by
\* that of the second.
C28_Witness ==
    /\ last.op = "load"
    /\ last.versioned
    /\ DOMAIN fs.versioned = {1, 2}
    /\ file_state(fs.versioned[1]) = "found"
    /\ file_state(fs.versioned[2]) = "found"
    /\ fs.versioned[1] # fs.versioned[2]
    /\ agent.q_table = fs.versioned[2][1]
    /\ agent.q_table # last.before

-----------------------------------------------------------------------------
(* config.py and bot.py: the decision loop.                                *)

MAX_POSITION_SIZE == 100
STOP_LOSS_PERCENTAGE == 20
TAKE_PROFIT_PERCENTAGE == 50

\* the terms of the reward: -0.01 every tick, -0.05 for a buy or a sell,
\* 0.1 of the loss of a losing position that is held
INACTIVITY_PENALTY == -10
OVERTRADE_PENALTY == -50
HOLDING_FACTOR == 100

\* ticks of the live loop in one behaviour
MaxTicks == 2

\* bars the loop of backtest() goes through
MaxBars == 3

\* the last close of the history a tick sees: 99.0 is below 100.0 and above
\* its stop-loss threshold 98.0; 106.0 is above the take-profit thresholds
\* of 99.0 and 100.0; 99.0 and 100.0 are below the stop-loss threshold of 106.0
Prices == {99000, 100000, 106000}

\* the cash the account reports: too little for one share, and 10000.0
Cashes == {50000, 10000000}

\* the history get_historical_data() returns: none, one shorter than
\* LONG_WINDOW, one long enough
Histories == {"empty", "short", "ready"}

\* (a tick that goes on with a history shorter than LONG_WINDOW)
tick_skipped_only_empty(history) == history = "empty"

\* the two early returns of trading_strategy(): data.empty, and the None
\* that calculate_moving_averages() returns for a history that is empty or
\* shorter than LONG_WINDOW
tick_skipped(history) == history = "empty" \/ history = "short"

\* the price at which the broker fills a market order placed when the last
\* close was `price`: that close, or one unit above it
FillPrices(price) == {price, price + Scale}

Abs(x) == IF x >= 0 THEN x ELSE -x

\* self.action_map
action_map(a) == CASE a = 0 -> "hold" [] a = 1 -> "buy" [] a = 2 -> "sell"

\* the state vector of trading_strategy() and backtest(), for a history whose
\* closes all stand at `price`
state_of(price, position) == <<price, price, position * Scale, 0, 50000, 0, 9500>>

\* get_current_position(): the shares the broker reports, 0 when the call fails
get_current_position(account, positionOk) == IF positionOk THEN account.qty ELSE 0

\* (a quantity that the position limit does not cap)
order_qty_uncapped(cash, current_price) == cash \div current_price

\* qty of trading_strategy()
order_qty(cash, current_price) == Min2(MAX_POSITION_SIZE, cash \div current_price)

\* the stop-loss / take-profit check of trading_strategy()
forced_exit(position, entry_price, current_price) ==
    IF position > 0 /\ entry_price # None
    THEN IF current_price <= Mul(entry_price[1], Scale - STOP_LOSS_PERCENTAGE)
         THEN "stop_loss"
         ELSE IF current_price >= Mul(entry_price[1], Scale + TAKE_PROFIT_PERCENTAGE)
         THEN "take_profit"
         ELSE "none"
    ELSE "none"

\* the branch of trading_strategy() that runs when no exit was forced
live_branch(action_name, qty, position) ==
    IF action_name = "buy" /\ qty > 0 /\ position <= 0 THEN "buy"
    ELSE IF action_name = "sell" /\ position > 0 THEN "sell"
    ELSE "hold"

\* (an action block that runs after a forced exit too)
action_allowed_always(fired) == TRUE

\* `if not stop_loss_triggered and not take_profit_triggered`: the block that
\* executes the agent's action runs only when no exit was forced
action_allowed(fired) == fired = "none"

\* the orders trading_strategy() places, in the order of its place_order()
\* calls: that of the stop-loss / take-profit block, then that of the block
\* of the agent's action
live_orders(fired, branch, qty, position) ==
    (IF fired # "none" THEN <<[side |-> "sell", qty |-> Abs(position)]>> ELSE <<>>)
    \o (IF ~action_allowed(fired) THEN <<>>
        ELSE IF branch = "buy" THEN <<[side |-> "buy", qty |-> qty]>>
        ELSE IF branch = "sell" THEN <<[side |-> "sell", qty |-> Abs(position)]>>
        ELSE <<>>)

\* the order trading_strategy() places, None when it places none
live_order(fired, branch, qty, position) ==
    IF live_orders(fired, branch, qty, position) = <<>> THEN None
    ELSE Some(live_orders(fired, branch, qty, position)[1])

\* self.entry_price at the end of trading_strategy()
live_entry_price(fired, branch, entry_price, current_price) ==
    IF fired # "none" THEN None
    ELSE IF branch = "buy" THEN Some(current_price)
    ELSE IF branch = "sell" THEN None
    ELSE entry_price

\* (a reward without the overtrade term)
live_reward_no_overtrade(fired, branch, action_name, position, entry_price, current_price) ==
    LET pnl == IF fired # "none" \/ (branch = "sell" /\ entry_price # None)
               THEN (current_price - entry_price[1]) * Abs(position)
               ELSE 0
    IN  pnl + INACTIVITY_PENALTY

\* reward at the end of trading_strategy()
live_reward(fired, branch, action_name, position, entry_price, current_price) ==
    LET pnl == IF fired # "none" \/ (branch = "sell" /\ entry_price # None)
               THEN (current_price - entry_price[1]) * Abs(position)
               ELSE 0
        holding_penalty ==
               IF /\ fired = "none"
                  /\ branch = "hold"
                  /\ position > 0
                  /\ entry_price # None
                  /\ current_price < entry_price[1]
               THEN -Mul(Abs(current_price - entry_price[1]), HOLDING_FACTOR)
               ELSE 0
        overtrade_penalty ==
               IF action_name \in {"buy", "sell"} THEN OVERTRADE_PENALTY ELSE 0
    IN  pnl + INACTIVITY_PENALTY + holding_penalty + overtrade_penalty

\* (a loop that learns from every tick at which an entry price existed)
should_learn_any_action(action_name, prev_entry_price) ==
    prev_entry_price # None

\* the condition under which trading_strategy() and backtest() call remember()
should_learn(action_name, prev_entry_price) ==
    action_name = "sell" /\ prev_entry_price # None

\* trading_strategy() from its reading of the position to its reward, for
\* the agent `self`, the bot's entry price and what the tick reads
live_plan(self, entry_price, account, price, positionOk, u, r, cash) ==
    LET position == get_current_position(account, positionOk)
        state == state_of(price, position)
        action == act(self, state, u, r)
        action_name == action_map(action)
        qty == order_qty(cash, price)
        fired == forced_exit(position, entry_price, price)
        branch == live_branch(action_name, qty, position)
    IN  [ position |-> position, state |-> state, action |-> action,
          action_name |-> action_name, qty |-> qty, fired |-> fired,
          orders |-> live_orders(fired, branch, qty, position),
          order |-> live_order(fired, branch, qty, position),
          entry_price |-> live_entry_price(fired, branch, entry_price, price),
          reward |-> live_reward(fired, branch, action_name, position,
                                 entry_price, price) ]

\* place_order(): what the broker answers to an order that is placed
OrderOutcomes(order, price) ==
    IF order = None THEN {None}
    ELSE {Some([ok |-> FALSE])}
         \cup {Some([ok |-> TRUE, fill |-> f]) : f \in FillPrices(price)}

\* the account after the order, which the broker fills in full when it
\* accepts it
broker_after(account, order, outcome) ==
    IF order = None \/ ~outcome[1].ok THEN account
    ELSE IF order[1].side = "buy"
    THEN [account EXCEPT !.qty = @ + order[1].qty]
    ELSE [account EXCEPT !.qty = @ - order[1].qty]

\* the history re-queried after the sleep of trading_strategy(): not
\* available, or one whose closes stand at a price
NextObservations == {None} \cup {Some(p) : p \in Prices}

\* next_state of trading_strategy()
live_next_state(state, next, account, positionOk) ==
    IF next = None THEN state
    ELSE state_of(next[1], get_current_position(account, positionOk))

\* backtest(): one iteration of its loop, for the agent `self`, the locals
\* `loc` and the bar's close
backtest_step(self, loc, price, u, r) ==
    LET state == state_of(price, loc.position)
        action == act(self, state, u, r)
        action_name == action_map(action)
        buys == action_name = "buy" /\ loc.position <= 0
        sells == ~buys /\ action_name = "sell" /\ loc.position > 0
        position == IF buys THEN 1 ELSE IF sells THEN 0 ELSE loc.position
        entry_price == IF buys THEN Some(price)
                       ELSE IF sells THEN None ELSE loc.entry_price
        pnl == IF sells THEN (price - loc.entry_price[1]) * Abs(loc.position) ELSE 0
        holding_penalty ==
            IF position > 0 /\ entry_price # None /\ price < entry_price[1]
            THEN -Mul(Abs(price - entry_price[1]), HOLDING_FACTOR)
            ELSE 0
        overtrade_penalty ==
            IF action_name \in {"buy", "sell"} THEN OVERTRADE_PENALTY ELSE 0
    IN  [ position |-> position, entry_price |-> entry_price, state |-> state,
          action |-> action, action_name |-> action_name,
          traded |-> IF buys THEN "buy" ELSE IF sells THEN "sell" ELSE "none",
          reward |-> pnl + INACTIVITY_PENALTY + holding_penalty + overtrade_penalty,
          next_state |-> state ]

-----------------------------------------------------------------------------
(* The decision loop as actions.                                           *)

ActRecord(state, u, r, result) ==
    [op |-> "act", state |-> state, u |-> u, r |-> r, result |-> result]

\* A tick of the live loop after its order was answered: the ledger, the
\* second query of the market, and remember() and save() when the tick is one
\* to learn from.
LiveFinish(plan, history, cash, price, positionOk, u, r, outcome) ==
    LET account == broker_after(broker, plan.order, outcome)
        done(learned, next) ==
            [ kind |-> "done", mode |-> "live", price |-> price,
              position |-> plan.position, held |-> broker.qty,
              entry_before |-> bot.entry_price, action |-> plan.action,
              fired |-> plan.fired, order |-> plan.order, outcome |-> outcome,
              reward |-> plan.reward, learned |-> learned,
              history |-> history, cash |-> cash, state |-> plan.state,
              orders |-> plan.orders, next |-> next ]
    IN  /\ bot' = [bot EXCEPT !.entry_price = plan.entry_price]
        /\ broker' = account
        /\ IF should_learn(plan.action_name, bot.entry_price)
           THEN \E next \in NextObservations :
                   LET t == Transition(plan.state, plan.action, plan.reward,
                                       live_next_state(plan.state, next, account,
                                                       positionOk),
                                       FALSE)
                   IN  \E perm \in Orders(Len(push(agent, t))) :
                          /\ RememberCall(t, perm)
                          /\ fs' = save(remember(agent, t, perm), TRUE, fs, now)
                          /\ tick' = done(Some(t), next)
           ELSE /\ tick' = done(None, None)
                /\ last' = ActRecord(plan.state, u, r, plan.action)
                /\ UNCHANGED <<agent, pushed, fs>>

\* One call of trading_strategy() by run(), and the sleep that follows it.
LiveTick ==
    /\ mode = "live"
    /\ loop.pc = "off"
    /\ now <= MaxTicks
    /\ now' = now + 1
    /\ UNCHANGED <<mode, bt, loop, tb>>
    /\ \E history \in Histories :
          IF tick_skipped(history)
          THEN /\ tick' = [kind |-> "skipped", mode |-> "live", learned |-> None,
                           history |-> history]
               /\ UNCHANGED <<agent, pushed, fs, last, bot, broker>>
          ELSE \E price \in Prices, positionOk \in BOOLEAN, u \in Draws,
                  r \in Actions, accountOk \in BOOLEAN :
                  IF ~accountOk
                  THEN /\ tick' = [kind |-> "aborted", mode |-> "live", learned |-> None,
                                   history |-> history]
                       /\ last' = ActRecord(
                              state_of(price, get_current_position(broker, positionOk)),
                              u, r,
                              act(agent,
                                  state_of(price, get_current_position(broker, positionOk)),
                                  u, r))
                       /\ UNCHANGED <<agent, pushed, fs, bot, broker>>
                  ELSE \E cash \in Cashes :
                          LET plan == live_plan(agent, bot.entry_price, broker, price,
                                                positionOk, u, r, cash)
                          IN  \E outcome \in OrderOutcomes(plan.order, price) :
                                 LiveFinish(plan, history, cash, price, positionOk, u, r,
                                            outcome)

\* Where a KeyboardInterrupt can reach a tick that places an order.  It is
\* raised in the main thread wherever that thread stands, and nothing in
\* trading_strategy() or place_order() catches it (they catch Exception):
\* after place_order() returned and before self.entry_price is assigned;
\* in time.sleep(1), after the ledger update and before remember(); after
\* remember() and before save() wrote its file.
CutStages == {"ordered", "sleeping", "remembered"}

\* The operator's Ctrl-C while trading_strategy() runs: the tick ends where
\* it stands, run() catches the KeyboardInterrupt and breaks out of its loop.
LiveInterrupt ==
    /\ mode = "live"
    /\ loop.pc = "off"
    /\ now <= MaxTicks
    /\ loop' = [pc |-> "stopped"]
    /\ UNCHANGED <<mode, bt, tb, now, fs>>
    /\ \E price \in Prices, positionOk \in BOOLEAN, u \in Draws, r \in Actions,
          cash \in Cashes, stage \in CutStages :
          LET plan == live_plan(agent, bot.entry_price, broker, price, positionOk,
                                u, r, cash)
              learns == should_learn(plan.action_name, bot.entry_price)
              cut == [ kind |-> "cut", mode |-> "live", learned |-> None,
                       history |-> "ready", stage |-> stage, order |-> plan.order,
                       entry_due |-> plan.entry_price, learns |-> learns ]
          IN  /\ plan.order # None
              /\ \E outcome \in OrderOutcomes(plan.order, price) :
                    /\ broker' = broker_after(broker, plan.order, outcome)
                    /\ bot' = IF stage = "ordered" THEN bot
                              ELSE [bot EXCEPT !.entry_price = plan.entry_price]
                    /\ IF stage = "remembered"
                       THEN /\ learns
                            /\ \E next \in NextObservations :
                                  LET t == Transition(plan.state, plan.action,
                                               plan.reward,
                                               live_next_state(plan.state, next,
                                                   broker_after(broker, plan.order,
                                                                outcome),
                                                   positionOk),
                                               FALSE)
                                  IN  /\ \E perm \in Orders(Len(push(agent, t))) :
                                            RememberCall(t, perm)
                                      /\ tick' = [cut EXCEPT !.learned = Some(t)]
                       ELSE /\ tick' = cut
                            /\ last' = ActRecord(plan.state, u, r, plan.action)
                            /\ UNCHANGED <<agent, pushed>>

\* The process is started again between two ticks: __main__ constructs a
\* new AlpacaTradingBot, whose entry_price is None and whose agent is a new
\* QLearningAgent on the same model_path, and calls run().  The account at
\* the broker is what it was.
LiveRestart ==
    /\ mode = "live"
    /\ loop.pc = "off"
    /\ tick.kind \in {"done", "skipped", "aborted"}
    /\ bot' = [entry_price |-> None]
    /\ agent' = IF load_raises(FALSE, fs) THEN agent ELSE construct(agent, fs)
    /\ pushed' = <<>>
    /\ last' = Idle
    /\ tick' = [kind |-> "restart", mode |-> "live", learned |-> None,
                history |-> "ready", after |-> tick.kind]
    /\ UNCHANGED <<mode, broker, bt, loop, tb, now, fs>>

\* One iteration of the loop of backtest().
BacktestTick ==
    /\ mode = "backtest"
    /\ bt.i < MaxBars
    /\ UNCHANGED <<mode, bot, broker, fs, now, loop, tb>>
    /\ \E price \in Prices, u \in Draws, r \in Actions :
          LET step == backtest_step(agent, bt, price, u, r)
              done(learned) ==
                  [ kind |-> "done", mode |-> "backtest", price |-> price,
                    position |-> bt.position, held |-> bt.position,
                    entry_before |-> bt.entry_price, action |-> step.action,
                    fired |-> "none",
                    order |-> IF step.traded = "none" THEN None
                              ELSE Some([side |-> step.traded, qty |-> 1]),
                    outcome |-> IF step.traded = "none" THEN None
                                ELSE Some([ok |-> TRUE, fill |-> price]),
                    reward |-> step.reward, learned |-> learned,
                    history |-> "ready", cash |-> 0, state |-> step.state,
                    orders |-> <<>>, next |-> None ]
          IN  /\ bt' = [position |-> step.position, entry_price |-> step.entry_price,
                        i |-> bt.i + 1]
              /\ IF should_learn(step.action_name, bt.entry_price)
                 THEN LET t == Transition(step.state, step.action, step.reward,
                                          step.next_state, FALSE)
                      IN  \E perm \in Orders(Len(push(agent, t))) :
                             /\ RememberCall(t, perm)
                             /\ tick' = done(Some(t))
                 ELSE /\ tick' = done(None)
                      /\ last' = ActRecord(step.state, u, r, step.action)
                      /\ UNCHANGED <<agent, pushed>>

-----------------------------------------------------------------------------
(* SpecBot: the bot started live or as a backtest, with the agent of       *)
(* config.py scaled down to a buffer of MaxCapacity and a batch of 1.      *)

InitBotRun ==
    /\ agent = NewAgent(QL_ALPHA, QL_GAMMA,
                        <<QL_EPSILON, QL_EPSILON_MIN, QL_EPSILON_DECAY>>,
                        MaxCapacity, 1)
    /\ InitFiles
    /\ InitBot
    /\ mode \in {"live", "backtest"}
    /\ pushed = <<>>
    /\ last = Idle

NextBot == LiveTick \/ LiveInterrupt \/ LiveRestart \/ BacktestTick

SpecBot == InitBotRun /\ [][NextBot]_vars

-----------------------------------------------------------------------------
(* The position ledger and the learning trigger (SpecBot).                  *)

\* The ledger of the loop that ran the last tick: the live loop holds its
\* quantity at the broker and its entry price in the bot, backtest() holds
\* both in its locals.
LedgerQty == IF tick.mode = "live" THEN broker.qty ELSE bt.position

LedgerEntry == IF tick.mode = "live" THEN bot.entry_price ELSE bt.entry_price

\* C2: a buy executed while the ledger is flat leaves it long, its entry price
\* the fill price of the order and its quantity the quantity ordered; a sell
\* executed while the ledger is long leaves it flat, entry price and quantity
\* cleared.
C2_LedgerTransitions ==
    (tick.kind = "done" /\ tick.order # None /\ tick.outcome[1].ok) =>
        /\ (tick.order[1].side = "buy" /\ tick.held = 0) =>
              /\ LedgerEntry = Some(tick.outcome[1].fill)
              /\ LedgerQty = tick.order[1].qty
        /\ (tick.order[1].side = "sell" /\ tick.held > 0) =>
              /\ LedgerEntry = None
              /\ LedgerQty = 0

\* C3: on a live tick at which a position is held with a recorded entry
\* price, the stop-loss fires exactly when price <= entry * (1 - stop_pct),
\* the take-profit exactly when price >= entry * (1 + take_pct), and no
\* share is held after a tick whose price met either threshold.
C3_ForcedExits ==
    (/\ tick.kind = "done"
     /\ tick.mode = "live"
     /\ tick.held > 0
     /\ tick.entry_before # None) =>
        LET entry == tick.entry_before[1]
            stopMet == tick.price <= Mul(entry, Scale - STOP_LOSS_PERCENTAGE)
            takeMet == tick.price >= Mul(entry, Scale + TAKE_PROFIT_PERCENTAGE)
        IN  /\ (tick.fired = "stop_loss") <=> stopMet
            /\ (tick.fired = "take_profit") <=> takeMet
            /\ (stopMet \/ takeMet) => broker.qty = 0

\* C4: a tick, live or backtest, hands a transition to remember() exactly
\* when the tick ran to its end, its action was sell and an entry price
\* existed before it; the transition is the one remember() was last called
\* with.
C4_LearnsOnlyFromSell ==
    /\ tick.kind \in {"skipped", "aborted"} => tick.learned = None
    /\ tick.kind = "done" =>
          (tick.learned # None <=>
              (action_map(tick.action) = "sell" /\ tick.entry_before # None))
    /\ (tick.kind = "done" /\ tick.learned # None) =>
          /\ last.op = "remember"
          /\ last.t = tick.learned[1]
          /\ tick.learned[1].action = tick.action
          /\ pushed # <<>>
          /\ pushed[Len(pushed)] = tick.learned[1]
    /\ (tick.kind = "done" /\ tick.learned = None) => last.op = "act"

\* C4 witness: a live tick at which the agent chose to sell an open position
\* handed its transition to remember().
C4_Witness ==
    /\ tick.kind = "done"
    /\ tick.mode = "live"
    /\ tick.fired = "none"
    /\ action_map(tick.action) = "sell"
    /\ tick.entry_before # None
    /\ tick.held > 0
    /\ tick.learned # None
    /\ agent.q_table # <<>>

\* C11: a tick whose action is buy while shares are held, and on which no
\* stop-loss or take-profit fired, places no order and leaves quantity and
\* entry price as they were; on a tick at which no share is held no stop-loss
\* or take-profit fires, and a sell places no order and leaves quantity and
\* entry price as they were.
C11_NoOpTransitions ==
    tick.kind = "done" =>
        /\ (action_map(tick.action) = "buy" /\ tick.held > 0 /\ tick.fired = "none") =>
              /\ tick.order = None
              /\ LedgerQty = tick.held
              /\ LedgerEntry = tick.entry_before
        /\ tick.held = 0 => tick.fired = "none"
        /\ (action_map(tick.action) = "sell" /\ tick.held = 0) =>
              /\ tick.order = None
              /\ LedgerQty = 0
              /\ LedgerEntry = tick.entry_before

\* C12: every buy order a live tick places has the quantity
\* min(MAX_POSITION_SIZE, floor(cash / price)), which is positive; a tick
\* whose action is buy while that value is 0 places no order, and leaves a
\* ledger that held nothing and had no entry price as it was.
C12_BuyQuantity ==
    (tick.kind = "done" /\ tick.mode = "live") =>
        LET q == Min2(MAX_POSITION_SIZE, tick.cash \div tick.price)
        IN  /\ (tick.order # None /\ tick.order[1].side = "buy") =>
                  /\ tick.order[1].qty = q
                  /\ q > 0
            /\ (action_map(tick.action) = "buy" /\ q = 0 /\ tick.held = 0) =>
                  /\ tick.order = None
                  /\ broker.qty = 0
                  /\ bot.entry_price = tick.entry_before

\* C12 witness: a buy order placed with cash for more shares than
\* MAX_POSITION_SIZE, which the broker filled.
C12_Witness ==
    /\ tick.kind = "done"
    /\ tick.mode = "live"
    /\ tick.order # None
    /\ tick.order[1].side = "buy"
    /\ tick.cash \div tick.price > MAX_POSITION_SIZE
    /\ tick.outcome[1].ok
    /\ broker.qty = MAX_POSITION_SIZE

\* C14: a live tick whose order the broker refused leaves the entry price and
\* the quantity held as they were, and hands no transition to remember().
C14_FailedOrderLeavesLedger ==
    (/\ tick.kind = "done"
     /\ tick.mode = "live"
     /\ tick.order # None
     /\ ~tick.outcome[1].ok) =>
        /\ bot.entry_price = tick.entry_before
        /\ broker.qty = tick.held
        /\ tick.learned = None

\* C15: a live tick whose history is empty or shorter than LONG_WINDOW is
\* skipped: it calls neither act() nor remember(), places no order, and leaves
\* the entry price, the shares held, the replay buffer, the value table,
\* epsilon and the files as they were.
C15_SkippedTick ==
    [][tick'.history # "ready" =>
          /\ tick'.kind = "skipped"
          /\ UNCHANGED <<agent, pushed, last, bot, broker, fs>>]_vars

\* C15 witness: a tick skipped for a short history while shares are held at
\* a recorded entry price.
C15_Witness ==
    /\ tick.kind = "skipped"
    /\ tick.history = "short"
    /\ broker.qty > 0
    /\ bot.entry_price # None
    /\ last.op = "act"

\* C22: a tick at which the stop-loss or the take-profit fired hands no
\* transition to remember(), whatever action the agent selected.
C22_ForcedExitNotLearned ==
    (tick.kind = "done" /\ tick.fired # "none") => tick.learned = None

\* C23: a tick submits at most one order; and a tick at which the stop-loss
\* or the take-profit fired submits the closing order alone, a sell of the
\* shares held, whatever action the agent selected.
C23_OneOrderPerTick ==
    tick.kind = "done" =>
        /\ Len(tick.orders) <= 1
        /\ tick.fired # "none" =>
              tick.orders = <<[side |-> "sell", qty |-> Abs(tick.position)]>>

\* C23 witness: the take-profit fired at a tick at which the agent had
\* selected sell, and the tick submitted one order.
C23_Witness ==
    /\ tick.kind = "done"
    /\ tick.fired = "take_profit"
    /\ action_map(tick.action) = "sell"
    /\ Len(tick.orders) = 1

\* C24: a stop of the operator ends the loop between ticks only: when the
\* loop has been left, the last tick that began ran to its end, so that the
\* entry price the tick was to write after its order is written, and the
\* tick that was to learn has learnt and saved.
C24_StopBetweenTicks ==
    loop.pc = "stopped" =>
        /\ bot.entry_price = tick.entry_due
        /\ tick.learns => tick.stage = "saved"

\* C25: at a tick at which the stop-loss or the take-profit fired, the reward
\* is the realized profit (price - entry price) * quantity and nothing else.
C25_ForcedExitReward ==
    (tick.kind = "done" /\ tick.fired # "none") =>
        tick.reward = (tick.price - tick.entry_before[1]) * Abs(tick.position)

\* C26: at a tick without a forced exit, live or backtest, the reward is the
\* sum of the realized profit (price - entry price before the tick) *
\* quantity before the tick when the tick executed a closing sell, -0.01,
\* -0.05 when the selected action was buy or sell, and -0.1 * |price - entry
\* price| when the ledger is long after the action and the price is below
\* its entry price.  The quantity is the position the tick read, and the
\* ledger after the action is that position moved by the tick's order.
C26_RewardTerms ==
    (tick.kind = "done" /\ tick.fired = "none") =>
        LET sold == tick.order # None /\ tick.order[1].side = "sell"
            bought == tick.order # None /\ tick.order[1].side = "buy"
            pnl == IF sold /\ tick.entry_before # None
                   THEN (tick.price - tick.entry_before[1]) * Abs(tick.position)
                   ELSE 0
            overtrade == IF action_map(tick.action) \in {"buy", "sell"}
                         THEN OVERTRADE_PENALTY ELSE 0
            long_after == bought \/ (~sold /\ tick.position > 0)
            holding == IF long_after /\ LedgerEntry # None /\ tick.price < LedgerEntry[1]
                       THEN -Mul(Abs(tick.price - LedgerEntry[1]), HOLDING_FACTOR)
                       ELSE 0
        IN  tick.reward = pnl + INACTIVITY_PENALTY + overtrade + holding

\* C26 witness: a live tick that held an open position below its entry
\* price, no exit forced, and was charged the holding term.
C26_Witness ==
    /\ tick.kind = "done"
    /\ tick.mode = "live"
    /\ tick.fired = "none"
    /\ tick.order = None
    /\ tick.position > 0
    /\ LedgerEntry # None
    /\ tick.price < LedgerEntry[1]
    /\ tick.reward < INACTIVITY_PENALTY + OVERTRADE_PENALTY

\* C27: the next_state of a transition handed to remember() is the state of
\* the observation that follows the tick: in live mode that of the history
\* queried again after the sleep, the tick's own state only when that query
\* gave none; in a backtest that of the next bar, whenever a next bar is
\* processed.
C27_NextStateFollows ==
    /\ [](  (tick.kind = "done" /\ tick.mode = "live" /\ tick.learned # None)
           => IF tick.next = None
              THEN tick.learned[1].next_state = tick.state
              ELSE tick.learned[1].next_state[1] = tick.next[1])
    /\ [][(/\ tick.kind = "done"
           /\ tick.mode = "backtest"
           /\ tick.learned # None
           /\ bt'.i = bt.i + 1)
             => tick.learned[1].next_state = tick'.state]_vars

\* C29: the position component of every state vector handed to act() or
\* stored in a transition is a sign, -1, 0 or 1: 0 when the ledger is flat
\* and 1 when it is long, whatever the number of shares held.
C29_PositionIsSign ==
    tick.kind = "done" =>
        /\ tick.state[3] \in {-Scale, 0, Scale}
        /\ (tick.position > 0) <=> (tick.state[3] = Scale)
        /\ tick.learned # None =>
              /\ tick.learned[1].state[3] \in {-Scale, 0, Scale}
              /\ tick.learned[1].next_state[3] \in {-Scale, 0, Scale}

\* C33: a bar of the backtest at which the stop-loss / take-profit check of
\* the live loop fires for the position and entry price the backtest holds
\* leaves the backtest's ledger Flat, as the same tick leaves the live one.
C33_BacktestForcedExit ==
    (/\ tick.kind = "done"
     /\ tick.mode = "backtest"
     /\ forced_exit(tick.position, tick.entry_before, tick.price) # "none") =>
        /\ bt.position = 0
        /\ bt.entry_price = None

\* C35: at every tick boundary of the live loop, after ticks, failed orders
\* and restarts of the process, the bot holds an entry price if and only if
\* the broker reports a Long position.
C35_LedgerConsistent ==
    (/\ tick.kind \in {"done", "skipped", "aborted", "restart"}
     /\ tick.mode = "live") =>
        (bot.entry_price # None <=> broker.qty > 0)

\* C36: the table the live loop saved after a learning step is the table
\* held by the agent that a restart of the process constructs next.
C36_LearnedSurvivesRestart ==
    [][(/\ tick.kind = "done"
        /\ tick.mode = "live"
        /\ tick.learned # None
        /\ tick'.kind = "restart") => agent'.q_table = agent.q_table]_vars

-----------------------------------------------------------------------------
(* bot.py run() and core/bot.py TradingBot.start(): the loops around a tick. *)

\* calls of the tick that returned, counted up to this number
MaxLoopTicks == 2

\* calls of the tick that raised, counted up to this number
MaxLoopErrors == 2

\* The ways a call of trading_strategy() or _trading_cycle() ends: it
\* returns, or an exception leaves it.  get_historical_data() and
\* place_order() catch what their calls raise, so that a failed data fetch or
\* a refused order ends in "returned"; the feature computations, the
\* subscript of the None that get_account_info() returns, and agent.save()
\* raise into the loop.
Raises == {"features", "account", "save"}

TickOutcomes == {"returned"} \cup Raises

\* which loop runs: run() of bot.py, or TradingBot.start()
LoopKinds == {"run", "start"}

\* the loop entered: run() at `while True`, start() after it set is_running
EnterLoop(kind) ==
    [ kind |-> kind, pc |-> "tick", is_running |-> TRUE, signal |-> FALSE,
      ticks |-> 0, errors |-> 0, raised |-> "none" ]

\* (a handler that leaves the loop)
on_exception_breaks(self, stage) ==
    [self EXCEPT !.pc = "stopped", !.raised = stage,
                 !.errors = Min2(@ + 1, MaxLoopErrors)]

\* `except Exception`: the error is logged and the handler sleeps (60 s in
\* run(), 30 s in start())
on_exception(self, stage) ==
    [self EXCEPT !.pc = "backoff", !.raised = stage,
                 !.errors = Min2(@ + 1, MaxLoopErrors)]

\* the tick returned: the loop sleeps its interval
on_return(self) ==
    [self EXCEPT !.pc = "sleep", !.raised = "none",
                 !.ticks = Min2(@ + 1, MaxLoopTicks)]

\* the loop's condition, evaluated when a sleep ends: `while True` in run(),
\* `while self.is_running` in start()
loop_condition(self) == self.kind = "run" \/ self.is_running

\* One call of trading_strategy() / _trading_cycle() inside the try.
LoopTick ==
    /\ loop.pc = "tick"
    /\ \E outcome \in TickOutcomes :
          loop' = IF outcome = "returned" THEN on_return(loop)
                  ELSE on_exception(loop, outcome)
    /\ UNCHANGED <<agent, fs, now, pushed, last, mode, bot, broker, bt, tick, tb>>

\* time.sleep(config.CHECK_INTERVAL) / asyncio.sleep(60) returns.
LoopSleepEnds ==
    /\ loop.pc = "sleep"
    /\ loop' = [loop EXCEPT !.pc = IF loop_condition(loop) THEN "tick" ELSE "stopped"]
    /\ UNCHANGED <<agent, fs, now, pushed, last, mode, bot, broker, bt, tick, tb>>

\* The sleep of the exception handler returns.
LoopBackoffEnds ==
    /\ loop.pc = "backoff"
    /\ loop' = [loop EXCEPT !.pc = IF loop_condition(loop) THEN "tick" ELSE "stopped"]
    /\ UNCHANGED <<agent, fs, now, pushed, last, mode, bot, broker, bt, tick, tb>>

\* The operator's Ctrl-C reaches run(): inside the try it is caught and the
\* loop breaks; inside the handler's sleep nothing catches it and it leaves
\* run().
LoopInterrupt ==
    /\ loop.kind = "run"
    /\ loop.pc \in {"tick", "sleep", "backoff"}
    /\ loop' = [loop EXCEPT !.signal = TRUE,
                            !.pc = IF loop.pc = "backoff" THEN "killed" ELSE "stopped"]
    /\ UNCHANGED <<agent, fs, now, pushed, last, mode, bot, broker, bt, tick, tb>>

\* TradingBot.stop(), run at one of the awaits of start().
LoopStop ==
    /\ loop.kind = "start"
    /\ loop.pc \in {"tick", "sleep", "backoff"}
    /\ loop.is_running
    /\ loop' = [loop EXCEPT !.signal = TRUE, !.is_running = FALSE]
    /\ UNCHANGED <<agent, fs, now, pushed, last, mode, bot, broker, bt, tick, tb>>

InitLoop ==
    /\ agent = NewAgent(QL_ALPHA, QL_GAMMA,
                        <<QL_EPSILON, QL_EPSILON_MIN, QL_EPSILON_DECAY>>,
                        MaxCapacity, 1)
    /\ InitFiles
    /\ bot = [entry_price |-> None]
    /\ broker = [qty |-> 0]
    /\ bt = [position |-> 0, entry_price |-> None, i |-> 0]
    /\ tick = NoTick
    /\ tb = NewTradingBot
    /\ \E kind \in LoopKinds : loop = EnterLoop(kind)
    /\ mode = "live"
    /\ pushed = <<>>
    /\ last = Idle

NextLoop == LoopTick \/ LoopSleepEnds \/ LoopBackoffEnds \/ LoopInterrupt \/ LoopStop

SpecLoop == InitLoop /\ [][NextLoop]_vars

\* A sleep that was entered returns, and a tick that was entered ends.
SpecLoopLive ==
    /\ SpecLoop
    /\ WF_vars(LoopTick)
    /\ WF_vars(LoopSleepEnds)
    /\ WF_vars(LoopBackoffEnds)

\* C13: an exception that leaves a tick takes the loop to its backoff sleep
\* and never out of the loop; the loop is left only after a stop signal of
\* the operator; and a backoff sleep is followed by a further tick unless the
\* operator has signalled a stop.
C13_LoopSurvivesBadTicks ==
    /\ [][(loop.pc = "tick" /\ loop'.raised \in Raises /\ ~loop'.signal)
             => loop'.pc = "backoff"]_vars
    /\ [](loop.pc \in {"stopped", "killed"} => loop.signal)
    /\ ((loop.pc = "backoff") ~> (loop.pc = "tick" \/ loop.signal))

\* C13 witness: the loop stands at a further tick after two ticks that
\* raised, the last of them in agent.save(), and no stop was signalled.
C13_Witness ==
    /\ loop.pc = "tick"
    /\ loop.errors >= 2
    /\ loop.raised = "save"
    /\ ~loop.signal

-----------------------------------------------------------------------------
(* SpecKey: get_state_key() applied to pairs of state vectors.              *)

\* The values a component takes, in thousandths: both sides of the rounding
\* boundaries at 0.005 and 0.015, their halves, and negative values.
KeyValues == {-15, -6, -5, -4, 0, 4, 5, 6, 14, 15, 16}

\* state vectors that vary in position and momentum
KeyVectors ==
    { [SFlat EXCEPT ![3] = p, ![4] = m] : p \in {0, 1000}, m \in KeyValues }

\* get_state_key() called on two state vectors
KeyOfPair ==
    /\ \E x \in KeyVectors, y \in KeyVectors :
          last' = [op |-> "key", x |-> x, y |-> y,
                   kx |-> get_state_key(x), ky |-> get_state_key(y)]
    /\ UNCHANGED <<agent, fs, now, pushed>>
    /\ UNCHANGED botVars

InitKey ==
    /\ agent = NewAgent(QL_ALPHA, QL_GAMMA,
                        <<QL_EPSILON, QL_EPSILON_MIN, QL_EPSILON_DECAY>>,
                        MaxCapacity, 1)
    /\ InitFiles
    /\ InitBot
    /\ mode = "live"
    /\ pushed = <<>>
    /\ last = Idle

NextKey == KeyOfPair

SpecKey == InitKey /\ [][NextKey]_vars

\* x and y differ by less than 0.005 in every component
CloseVectors(x, y) == \A i \in DOMAIN x : Abs(x[i] - y[i]) < 5

\* C17 as stated: two state vectors that differ by less than 0.005 in every
\* component have the same key.
C17_CloseVectorsShareKey ==
    (last.op = "key" /\ CloseVectors(last.x, last.y)) => last.kx = last.ky

\* C17 amended: every component of a key is a whole hundredth at most 0.005
\* from the component it rounds; two state vectors of which every component
\* pair lies less than 0.005 from one and the same hundredth have the same
\* key; and the keys of two state vectors that differ by less than 0.005 in
\* every component differ by at most 0.01 in every component.
C17_RoundingCells ==
    last.op = "key" =>
        /\ \A i \in DOMAIN last.x :
              /\ last.kx[i] % 10 = 0
              /\ Abs(last.x[i] - last.kx[i]) <= 5
        /\ (\A i \in DOMAIN last.x :
               \E c \in {last.kx[i], last.ky[i]} :
                   Abs(last.x[i] - c) < 5 /\ Abs(last.y[i] - c) < 5)
              => last.kx = last.ky
        /\ CloseVectors(last.x, last.y) =>
              \A i \in DOMAIN last.x : Abs(last.kx[i] - last.ky[i]) <= 10

\* C17 witness: two state vectors 0.002 apart whose keys differ by 0.01.
C17_Witness ==
    /\ last.op = "key"
    /\ last.x # last.y
    /\ CloseVectors(last.x, last.y)
    /\ last.kx # last.ky
    /\ \E i \in DOMAIN last.x : Abs(last.kx[i] - last.ky[i]) = 10

-----------------------------------------------------------------------------
(* webhooks/tradingview.py: Python values, strings and dicts.               *)
(* A string is the sequence of its characters; a dict is a function of its  *)
(* keys; a value is a string, a number (in thousandths) or None.            *)

Str(chars) == [str |-> chars]
Num(n) == [num |-> n]
PyNone == [none |-> TRUE]

\* a dict as a value
Dict(d) == [dict |-> d]

IsNone(v) == "none" \in DOMAIN v

IsStr(v) == "str" \in DOMAIN v
IsNum(v) == "num" \in DOMAIN v

\* a JSON document that decodes to the dict d, as the value of a string
JsonText(d) == [json |-> d]

\* bool(v): an empty string, 0 and None are false
Truthy(v) ==
    IF IsStr(v) THEN v.str # <<>>
    ELSE IF IsNum(v) THEN v.num # 0
    ELSE "json" \in DOMAIN v

LowerCase == <<"a", "b", "c", "d", "e", "f", "g", "h", "i", "j", "k", "l", "m", "n", "o", "p", "q", "r", "s", "t", "u", "v", "w", "x", "y", "z">>
UpperCase == <<"A", "B", "C", "D", "E", "F", "G", "H", "I", "J", "K", "L", "M", "N", "O", "P", "Q", "R", "S", "T", "U", "V", "W", "X", "Y", "Z">>
\* str.upper() and str.lower()
str_upper(s) ==
    [i \in DOMAIN s |->
        IF IndexIn(s[i], LowerCase) > 0 THEN UpperCase[IndexIn(s[i], LowerCase)] ELSE s[i]]

str_lower(s) ==
    [i \in DOMAIN s |->
        IF IndexIn(s[i], UpperCase) > 0 THEN LowerCase[IndexIn(s[i], UpperCase)] ELSE s[i]]

\* s.replace(a, b) for single characters a and b
str_replace(s, a, b) == [i \in DOMAIN s |-> IF s[i] = a THEN b ELSE s[i]]

\* s.strip(): without its leading and trailing blanks
RECURSIVE str_strip(_)
str_strip(s) ==
    IF s = <<>> THEN s
    ELSE IF Head(s) = " " THEN str_strip(Tail(s))
    ELSE IF s[Len(s)] = " " THEN str_strip(SubSeq(s, 1, Len(s) - 1))
    ELSE s

\* the position of the first c in s, 0 when s has none
FirstIndex(s, c) ==
    IF \E i \in DOMAIN s : s[i] = c
    THEN CHOOSE i \in DOMAIN s : s[i] = c /\ \A j \in 1 .. (i - 1) : s[j] # c
    ELSE 0

\* s.split(sep) for a single character sep
RECURSIVE str_split(_, _)
str_split(s, sep) ==
    LET i == FirstIndex(s, sep)
    IN  IF i = 0 THEN <<s>>
        ELSE <<SubSeq(s, 1, i - 1)>> \o str_split(SubSeq(s, i + 1, Len(s)), sep)

\* s.isdigit()
str_isdigit(s) == s # <<>> /\ \A i \in DOMAIN s : IndexIn(s[i], DigitChars) > 0

\* int(s) of a string of digits
RECURSIVE digits_value(_)
digits_value(s) ==
    IF s = <<>> THEN 0
    ELSE 10 * digits_value(SubSeq(s, 1, Len(s) - 1))
         + (IndexIn(s[Len(s)], DigitChars) - 1)

\* float(s) succeeds: digits with at most one point, an optional sign
\* (the exponent, inf and nan forms of float() are outside the inputs)
is_float(s) ==
    LET body == IF s # <<>> /\ Head(s) = "-" THEN Tail(s) ELSE s
        parts == str_split(body, ".")
    IN  /\ Len(parts) \in {1, 2}
        /\ \A i \in DOMAIN parts :
              \A j \in DOMAIN parts[i] : IndexIn(parts[i][j], DigitChars) > 0
        /\ \E i \in DOMAIN parts : parts[i] # <<>>

\* float(s) in thousandths, for a string with at most three decimals
float_value(s) ==
    LET neg == s # <<>> /\ Head(s) = "-"
        body == IF neg THEN Tail(s) ELSE s
        parts == str_split(body, ".")
        frac == IF Len(parts) = 2 THEN parts[2] ELSE <<>>
        padded == SubSeq(frac \o <<"0", "0", "0">>, 1, 3)
        magnitude == Scale * digits_value(parts[1]) + digits_value(padded)
    IN  IF neg THEN -magnitude ELSE magnitude

\* dict.get(key, default)
Get(d, key, default) == IF key \in DOMAIN d THEN d[key] ELSE default

\* d.update(e)
Update(d, e) ==
    [k \in DOMAIN d \cup DOMAIN e |-> IF k \in DOMAIN e THEN e[k] ELSE d[k]]

\* the keys of the payload and signal dicts
Key ==
    [ symbol |-> <<"s", "y", "m", "b", "o", "l">>,
      action |-> <<"a", "c", "t", "i", "o", "n">>,
      price |-> <<"p", "r", "i", "c", "e">>,
      quantity |-> <<"q", "u", "a", "n", "t", "i", "t", "y">>,
      stop_loss |-> <<"s", "t", "o", "p", "_", "l", "o", "s", "s">>,
      take_profit |-> <<"t", "a", "k", "e", "_", "p", "r", "o", "f", "i", "t">>,
      strategy |-> <<"s", "t", "r", "a", "t", "e", "g", "y">>,
      timeframe |-> <<"t", "i", "m", "e", "f", "r", "a", "m", "e">>,
      timestamp |-> <<"t", "i", "m", "e", "s", "t", "a", "m", "p">>,
      confidence |-> <<"c", "o", "n", "f", "i", "d", "e", "n", "c", "e">>,
      exchange |-> <<"e", "x", "c", "h", "a", "n", "g", "e">>,
      message |-> <<"m", "e", "s", "s", "a", "g", "e">> ]

\* core/config.py Settings.MAX_POSITION_SIZE, 0.1
SETTINGS_MAX_POSITION_SIZE == 100

\* valid_actions
valid_actions ==
    { <<"b", "u", "y">>, <<"s", "e", "l", "l">>,
      <<"l", "o", "n", "g">>, <<"s", "h", "o", "r", "t">>,
      <<"c", "l", "o", "s", "e">>, <<"e", "x", "i", "t">> }

\* _parse_alert_message(): one `key: value` line as a dict of one entry, the
\* empty dict for a line without a colon
parse_line(line) ==
    LET stripped == str_strip(line)
        i == FirstIndex(stripped, ":")
        key == str_replace(str_lower(str_strip(SubSeq(stripped, 1, i - 1))), " ", "_")
        value == str_strip(SubSeq(stripped, i + 1, Len(stripped)))
        typed == IF FirstIndex(value, ".") > 0
                 THEN IF is_float(value) THEN Num(float_value(value)) ELSE Str(value)
                 ELSE IF str_isdigit(value) THEN Num(Scale * digits_value(value))
                 ELSE Str(value)
    IN  IF i = 0 THEN <<>> ELSE [k \in {key} |-> typed]

RECURSIVE parse_lines(_)
parse_lines(lines) ==
    IF lines = <<>> THEN <<>>
    ELSE Update(parse_line(Head(lines)), parse_lines(Tail(lines)))

\* _parse_alert_message(message)
parse_alert_message(message) ==
    IF "json" \in DOMAIN message THEN message.json
    ELSE parse_lines(str_split(message.str, "\n"))

\* signal.update(parsed_message)
merge_message(signal, parsed) == Update(signal, parsed)

\* parse_tradingview_signal(payload): the signal dict, or None; an exception
\* inside it (upper() or lower() of a value that is no string, split() of a
\* message that is no string) is caught and gives None
parse_tradingview_signal(payload) ==
    LET symbol == Get(payload, Key.symbol, Str(<<>>))
        action == Get(payload, Key.action, Str(<<>>))
        quantity == Get(payload, Key.quantity, PyNone)
        message == Get(payload, Key.message, Str(<<>>))
        signal ==
            (Key.symbol :> Str(str_upper(symbol.str)))
            @@ (Key.action :> Str(str_lower(action.str)))
            @@ (Key.price :> Get(payload, Key.price, PyNone))
            @@ (Key.quantity :> IF Truthy(quantity) THEN quantity
                              ELSE Num(SETTINGS_MAX_POSITION_SIZE))
            @@ (Key.stop_loss :> Get(payload, Key.stop_loss, PyNone))
            @@ (Key.take_profit :> Get(payload, Key.take_profit, PyNone))
            @@ (Key.strategy :> Get(payload, Key.strategy, Str(<<"t", "r", "a", "d", "i", "n", "g", "v", "i", "e", "w">>)))
            @@ (Key.timeframe :> Get(payload, Key.timeframe, Str(<<"1", "h">>)))
            @@ (Key.timestamp :> Get(payload, Key.timestamp, PyNone))
            @@ (Key.confidence :> Get(payload, Key.confidence, Num(Scale)))
            @@ (Key.exchange :> Get(payload, Key.exchange, Str(<<"b", "i", "n", "a", "n", "c", "e">>)))
    IN  IF ~IsStr(symbol) \/ ~IsStr(action) THEN PyNone
        ELSE IF symbol.str = <<>> \/ action.str = <<>> THEN PyNone
        ELSE IF str_lower(action.str) \notin valid_actions THEN PyNone
        ELSE IF ~Truthy(message) THEN Dict(signal)
        ELSE IF IsNum(message) THEN PyNone
        ELSE Dict(merge_message(signal, parse_alert_message(message)))

\* the characters _validate_symbol() accepts
ValidSymbolChars ==
    {UpperCase[i] : i \in DOMAIN UpperCase}
    \cup {DigitChars[i] : i \in DOMAIN DigitChars} \cup {"/", "-"}

\* _validate_symbol(symbol) for a string
validate_symbol(symbol) ==
    /\ symbol # <<>>
    /\ Len(symbol) >= 3
    /\ \A i \in DOMAIN symbol : str_upper(symbol)[i] \in ValidSymbolChars

\* float(v) succeeds, and its value in thousandths
can_float(v) == IsNum(v) \/ (IsStr(v) /\ is_float(v.str))

to_float(v) == IF IsNum(v) THEN v.num ELSE float_value(v.str)

\* `field in signal and signal[field]`
Present(signal, field) == field \in DOMAIN signal /\ Truthy(signal[field])

\* the price fields validate_signal() checks
price_fields == <<Key.price, Key.stop_loss, Key.take_profit>>

\* the body of the try of validate_signal(): "true" or "false" when it
\* returns, "raise" when an exception leaves it (len() of a symbol that is
\* no string, float() of a quantity that is no number)
validate_signal_body(signal) ==
    LET symbol == signal[Key.symbol]
        action == signal[Key.action]
        quantity == to_float(signal[Key.quantity])
        price == to_float(signal[Key.price])
        stop_loss == to_float(signal[Key.stop_loss])
        take_profit == to_float(signal[Key.take_profit])
    IN  IF ~Present(signal, Key.symbol) \/ ~Present(signal, Key.action) THEN "false"
        ELSE IF ~IsStr(symbol) THEN "raise"
        ELSE IF ~validate_symbol(symbol.str) THEN "false"
        ELSE IF ~IsStr(action) \/ action.str \notin valid_actions THEN "false"
        ELSE IF Present(signal, Key.quantity) /\ ~can_float(signal[Key.quantity]) THEN "raise"
        ELSE IF /\ Present(signal, Key.quantity)
                /\ (quantity <= 0 \/ quantity > SETTINGS_MAX_POSITION_SIZE)
             THEN "false"
        ELSE IF \E i \in DOMAIN price_fields :
                   /\ Present(signal, price_fields[i])
                   /\ \/ ~can_float(signal[price_fields[i]])
                      \/ to_float(signal[price_fields[i]]) <= 0
             THEN "false"
        ELSE IF /\ Present(signal, Key.price)
                /\ Present(signal, Key.stop_loss)
                /\ Present(signal, Key.take_profit)
                /\ \/ /\ action.str \in {<<"b", "u", "y">>, <<"l", "o", "n", "g">>}
                      /\ (stop_loss >= price \/ take_profit <= price)
                   \/ /\ action.str \in {<<"s", "e", "l", "l">>, <<"s", "h", "o", "r", "t">>}
                      /\ (stop_loss <= price \/ take_profit >= price)
             THEN "false"
        ELSE "true"

\* (a validation without its try/except)
validate_signal_unguarded(signal) ==
    [ raised |-> validate_signal_body(signal) = "raise",
      value |-> validate_signal_body(signal) = "true" ]

\* validate_signal(signal): the value it returns, and whether an exception
\* leaves it; `except Exception` turns every exception of the body into False
validate_signal(signal) ==
    [ raised |-> FALSE, value |-> validate_signal_body(signal) = "true" ]

\* (a sanitizer that works on the dict it was given)
signal_copy_aliases(signal) == [dict |-> signal, aliased |-> TRUE]

\* signal.copy(): a new dict with the entries of the signal
signal_copy(signal) == [dict |-> signal, aliased |-> FALSE]

\* numeric_fields of sanitize_signal()
numeric_fields == {Key.quantity, Key.price, Key.stop_loss, Key.take_profit, Key.confidence}

\* sanitize_signal(signal): whether it raised (str methods called on a symbol
\* or an action that is no string), the dict it returns, and the dict it was
\* given as it is after the call
sanitize_signal(signal) ==
    LET copy == signal_copy(signal)
        no_str(field) == field \in DOMAIN copy.dict /\ ~IsStr(copy.dict[field])
        symbol(d) ==
            IF Key.symbol \notin DOMAIN d THEN d
            ELSE Update(d, Key.symbol :>
                     Str(SelectSeq(str_upper(d[Key.symbol].str),
                                   LAMBDA c : c \notin {"/", "-"})))
        action(d) ==
            IF Key.action \notin DOMAIN d THEN d
            ELSE Update(d, Key.action :> Str(str_lower(d[Key.action].str)))
        numeric(d) ==
            [k \in DOMAIN d |->
                IF k \in numeric_fields /\ ~IsNone(d[k])
                THEN IF can_float(d[k]) THEN Num(to_float(d[k])) ELSE PyNone
                ELSE d[k]]
        confidence(d) ==
            IF Key.confidence \notin DOMAIN d \/ IsNone(d[Key.confidence])
            THEN Update(d, Key.confidence :> Num(Scale))
            ELSE d
        strategy(d) ==
            IF Key.strategy \notin DOMAIN d
            THEN Update(d, Key.strategy :> Str(<<"t", "r", "a", "d", "i", "n", "g", "v", "i", "e", "w">>))
            ELSE d
        sanitized == strategy(confidence(numeric(action(symbol(copy.dict)))))
    IN  IF no_str(Key.symbol) \/ no_str(Key.action)
        THEN [raised |-> TRUE, value |-> <<>>, input |-> signal]
        ELSE [raised |-> FALSE, value |-> sanitized,
              input |-> IF copy.aliased THEN sanitized ELSE signal]

-----------------------------------------------------------------------------
(* SpecWebhook: the parser and the validator applied to payloads.           *)

\* a key that a dict does not have
Absent == [absent |-> TRUE]

\* the dict of the entries of f that are not Absent
DictOf(f) == [k \in {x \in DOMAIN f : "absent" \notin DOMAIN f[x]} |-> f[k]]

\* the alert messages of the payloads: two `Key: value` lines, a line that
\* names an action, a line that names a symbol, and a JSON document
Messages ==
    { Absent,
      Str(<<"E", "n", "t", "r", "y", ":", " ", "0", ".", "4", "5", "\n", "S", "t", "o", "p", " ", "L", "o", "s", "s", ":", " ", "0", ".", "4", "3">>),
      Str(<<"A", "c", "t", "i", "o", "n", ":", " ", "h", "o", "l", "d">>),
      Str(<<"S", "y", "m", "b", "o", "l", ":", " ", "e", "t", "h">>),
      JsonText(Key.action :> Str(<<"H", "O", "L", "D">>)) }

\* the payloads parse_tradingview_signal() is called with
PayloadInputs ==
    { DictOf((Key.symbol :> s) @@ (Key.action :> a) @@ (Key.quantity :> q) @@ (Key.message :> m)) :
        s \in {Absent, Str(<<>>), Str(<<"b", "t", "c">>), Str(<<"B", "T", "C">>), Num(5 * Scale)},
        a \in {Absent, Str(<<>>), Str(<<"b", "u", "y">>), Str(<<"B", "U", "Y">>), Str(<<"h", "o", "l", "d">>), Str(<<"c", "l", "o", "s", "e">>)},
        q \in {Absent, Num(0), Num(SETTINGS_MAX_POSITION_SIZE)},
        m \in Messages }

\* (stop_loss, take_profit) of the signals: none, on the sides of a long
\* position at price 50.0, on the sides of a short one
StopsInputs ==
    { <<Absent, Absent>>, <<Num(48000), Num(52000)>>, <<Num(52000), Num(48000)>> }

\* the signals validate_signal() is called with
SignalInputs ==
    { DictOf((Key.symbol :> s) @@ (Key.action :> a) @@ (Key.quantity :> q) @@ (Key.price :> p)
             @@ (Key.stop_loss :> st[1]) @@ (Key.take_profit :> st[2])) :
        s \in {Absent, Str(<<>>), Str(<<"b", "t">>), Str(<<"B", "T", "C">>), Str(<<"b", "/", "c">>), Str(<<"b", "$", "c">>), Num(5 * Scale)},
        a \in {Absent, Str(<<>>), Str(<<"b", "u", "y">>), Str(<<"B", "U", "Y">>), Str(<<"h", "o", "l", "d">>), Str(<<"s", "e", "l", "l">>)},
        q \in {Absent, PyNone, Num(0), Num(50), Num(SETTINGS_MAX_POSITION_SIZE), Num(500),
               Num(-50), Str(<<"0", ".", "0", "5">>), Str(<<"a", "b", "c">>)},
        p \in {Absent, Num(50000), Num(-1000), Str(<<"x">>)},
        st \in StopsInputs }

\* One call of the parser, on a payload just received.
ParseSignal ==
    /\ last = Idle
    /\ \E payload \in PayloadInputs :
          last' = [op |-> "parse", payload |-> payload,
                   result |-> parse_tradingview_signal(payload)]
    /\ UNCHANGED <<agent, fs, now, pushed>>
    /\ UNCHANGED botVars

\* One call of the validator, on a signal just received.
ValidateSignal ==
    /\ last = Idle
    /\ \E signal \in SignalInputs :
          last' = [op |-> "validate", signal |-> signal,
                   result |-> validate_signal(signal)]
    /\ UNCHANGED <<agent, fs, now, pushed>>
    /\ UNCHANGED botVars

\* One call of the sanitizer on a signal just received, and a second call on
\* what the first returned.
SanitizeSignal ==
    /\ last = Idle
    /\ \E signal \in SignalInputs,
          c \in {Absent, PyNone, Str(<<"0", ".", "5">>), Str(<<"a", "b", "c">>)},
          st \in {Absent, PyNone, Str(<<"m", "i", "n", "e">>)} :
          LET given == Update(signal, DictOf((Key.confidence :> c) @@ (Key.strategy :> st)))
              result == sanitize_signal(given)
          IN  last' = [op |-> "sanitize", signal |-> given, result |-> result,
                       again |-> IF result.raised THEN result
                                 ELSE sanitize_signal(result.value)]
    /\ UNCHANGED <<agent, fs, now, pushed>>
    /\ UNCHANGED botVars

\* hmac.new(key, msg, hashlib.sha256).hexdigest(): a value that only the
\* same key and the same message give
hmac_sha256(key, msg) == [mac |-> <<key, msg>>]

\* validate_webhook_signature(payload, signature), for the configured
\* settings.TRADINGVIEW_WEBHOOK_SECRET
validate_webhook_signature(secret, payload, signature) ==
    IF secret = <<>> THEN TRUE
    ELSE signature = hmac_sha256(secret, payload)

\* POST /webhook/tradingview: the status of the response and the signal
\* handed to background_tasks.add_task(bot.process_tradingview_signal, ...)
tradingview_webhook(secret, request) ==
    LET refused(status) == [status |-> status, queued |-> PyNone]
        parsed == parse_tradingview_signal(request.body.json)
        sanitized == sanitize_signal(parsed.dict)
    IN  IF /\ Truthy(request.webhook_secret)
           /\ ~validate_webhook_signature(secret, request.body, request.signature)
        THEN refused(401)
        ELSE IF "json" \notin DOMAIN request.body THEN refused(400)
        ELSE IF IsNone(parsed) THEN refused(400)
        ELSE IF ~validate_signal(parsed.dict).value THEN refused(400)
        ELSE IF sanitized.raised THEN refused(500)
        ELSE [status |-> 200, queued |-> Dict(sanitized.value)]

\* the configured secret: none, or one
WebhookSecrets == {<<>>, <<"s">>}

\* The requests: a body that is a JSON payload or no JSON at all; the
\* X-Webhook-Signature header missing (read as ""), or the digest of the
\* body under the configured key, under another key, or of another body;
\* the query parameter webhook_secret missing, empty or given.
WebhookRequests(secret) ==
    UNION { { [body |-> b, signature |-> s, webhook_secret |-> w] :
                s \in { Str(<<>>), hmac_sha256(secret, b), hmac_sha256(<<"k">>, b),
                        hmac_sha256(secret, Str(<<>>)) },
                w \in {PyNone, Str(<<>>), Str(<<"s">>)} } :
            b \in {JsonText(p) : p \in PayloadInputs} \cup {Str(<<"{">>)} }

\* One request to the webhook endpoint.
TradingviewWebhook ==
    /\ last = Idle
    /\ \E secret \in WebhookSecrets :
          \E request \in WebhookRequests(secret) :
             last' = [op |-> "webhook", secret |-> secret, request |-> request,
                      result |-> tradingview_webhook(secret, request)]
    /\ UNCHANGED <<agent, fs, now, pushed>>
    /\ UNCHANGED botVars

NextWebhook == ParseSignal \/ ValidateSignal \/ SanitizeSignal \/ TradingviewWebhook

SpecWebhook == InitKey /\ [][NextWebhook]_vars

\* C19: parse_tradingview_signal() returns None for a payload whose symbol
\* or action is missing or empty or whose lowercased action is not an
\* allowed one; and every signal it returns has the payload's symbol in
\* upper case as its symbol and the payload's action in lower case, an
\* allowed one, as its action.
C19_ParseSignalContract ==
    last.op = "parse" =>
        LET symbol == Get(last.payload, Key.symbol, Str(<<>>))
            action == Get(last.payload, Key.action, Str(<<>>))
        IN  /\ (/\ IsStr(symbol)
                /\ IsStr(action)
                /\ \/ symbol.str = <<>>
                   \/ action.str = <<>>
                   \/ str_lower(action.str) \notin valid_actions)
                  => IsNone(last.result)
            /\ ~IsNone(last.result) =>
                  /\ IsStr(symbol)
                  /\ IsStr(action)
                  /\ last.result.dict[Key.symbol] = Str(str_upper(symbol.str))
                  /\ last.result.dict[Key.action] = Str(str_lower(action.str))
                  /\ str_lower(action.str) \in valid_actions

\* a symbol of at least 3 characters, all of them letters, digits, '/' or '-'
WellFormedSymbol(v) ==
    /\ IsStr(v)
    /\ Len(v.str) >= 3
    /\ \A i \in DOMAIN v.str :
          \/ IndexIn(v.str[i], LowerCase) > 0
          \/ IndexIn(v.str[i], UpperCase) > 0
          \/ IndexIn(v.str[i], DigitChars) > 0
          \/ v.str[i] \in {"/", "-"}

\* the field is missing from the signal, or empty
MissingOrEmpty(signal, field) == field \notin DOMAIN signal \/ ~Truthy(signal[field])

C21_SanitizeNormalises ==
    (last.op = "sanitize" /\ ~last.result.raised) =>
        LET s == last.signal
            r == last.result.value
        IN  /\ last.result.input = s
            /\ DOMAIN r = DOMAIN s \cup {Key.confidence, Key.strategy}
            /\ Key.symbol \in DOMAIN s =>
                  /\ \A i \in DOMAIN r[Key.symbol].str :
                        /\ r[Key.symbol].str[i] \notin {"/", "-"}
                        /\ IndexIn(r[Key.symbol].str[i], LowerCase) = 0
                  /\ r[Key.symbol].str =
                        SelectSeq(str_upper(s[Key.symbol].str),
                                  LAMBDA c : c \notin {"/", "-"})
            /\ Key.action \in DOMAIN s =>
                  r[Key.action] = Str(str_lower(s[Key.action].str))
            /\ \A f \in numeric_fields \cap DOMAIN s :
                  IF can_float(s[f]) THEN r[f] = Num(to_float(s[f]))
                  ELSE IF f = Key.confidence THEN r[f] = Num(Scale)
                  ELSE IsNone(r[f])
            /\ Key.confidence \notin DOMAIN s => r[Key.confidence] = Num(Scale)
            /\ r[Key.strategy] = Get(s, Key.strategy, Str(<<"t", "r", "a", "d", "i", "n", "g", "v", "i", "e", "w">>))
            /\ ~last.again.raised
            /\ last.again.value = r

\* C21 witness: a signal with the symbol 'b/c', an upper-case action, its
\* quantity the string '0.05' and a confidence that does not read as a
\* number was sanitised to a dict that differs from it.
C21_Witness ==
    /\ last.op = "sanitize"
    /\ ~last.result.raised
    /\ {Key.symbol, Key.action} \subseteq DOMAIN last.signal
    /\ last.signal[Key.symbol] = Str(<<"b", "/", "c">>)
    /\ last.signal[Key.action] = Str(<<"B", "U", "Y">>)
    /\ Key.quantity \in DOMAIN last.signal
    /\ last.signal[Key.quantity] = Str(<<"0", ".", "0", "5">>)
    /\ Key.confidence \in DOMAIN last.signal
    /\ last.signal[Key.confidence] = Str(<<"a", "b", "c">>)
    /\ last.result.value[Key.symbol] = Str(<<"B", "C">>)
    /\ last.result.value[Key.quantity] = Num(50)
    /\ last.result.value # last.signal

\* C39: with a webhook secret configured, a request whose signature is not
\* the HMAC-SHA256 of its body under that secret, the request without a
\* signature included, hands no signal to the bot.
C39_UnsignedNeverQueued ==
    (/\ last.op = "webhook"
     /\ last.secret # <<>>
     /\ last.request.signature # hmac_sha256(last.secret, last.request.body)) =>
        IsNone(last.result.queued)

-----------------------------------------------------------------------------
(* core/bot.py TradingBot, core/risk_manager.py, database/models.py: the    *)
(* signal-driven bot.                                                       *)

\* signals process_tradingview_signal() handles in one behaviour
MaxSignals == 2

\* core/config.py Settings.MAX_DAILY_LOSS, 0.05
MAX_DAILY_LOSS == 50

\* calculate_position_size(): the "conservative adjustment", 0.8
RISK_ADJUSTMENT == 800

\* database/models.py: the attributes of class Position
PositionColumns ==
    { "id", "symbol", "side", "quantity", "entry_price", "current_price",
      "stop_loss", "take_profit", "unrealized_pnl", "exchange", "strategy",
      "opened_at", "updated_at" }

\* the keyword arguments _track_position() gives to Position(...)
TrackKeywords ==
    { "symbol", "side", "quantity", "entry_price", "stop_loss", "take_profit",
      "timestamp" }

\* Position(**kwargs): the constructor of a declarative_base() class raises
\* TypeError for a keyword that is not an attribute of the class
position_init_raises(keywords) == keywords \ PositionColumns # {}

\* RiskManager.validate_trade(signal): "ok", "rejected", or "raise" when the
\* quantity is compared with a number and is none
validate_trade(self, signal) ==
    LET requested_size == Get(signal, Key.quantity, Num(0))
    IN  IF self.daily_losses >= MAX_DAILY_LOSS THEN "rejected"
        ELSE IF ~IsNum(requested_size) THEN "raise"
        ELSE IF requested_size.num > SETTINGS_MAX_POSITION_SIZE THEN "rejected"
        ELSE "ok"

\* RiskManager.calculate_position_size(signal)
calculate_position_size(signal) ==
    LET base_size == Get(signal, Key.quantity, Num(SETTINGS_MAX_POSITION_SIZE)).num
    IN  Min2(Mul(base_size, RISK_ADJUSTMENT), SETTINGS_MAX_POSITION_SIZE)

\* the order request of ExchangeManager.place_order(symbol, side, amount)
OrderRequest(symbol, side, amount) ==
    [symbol |-> symbol, side |-> side, amount |-> amount]

\* What place_order() answers to a request: None (no exchange configured, or
\* the exchange raised), or the order filled at a price.
FillResults == {PyNone, Num(50000 * Scale), Num(51000 * Scale)}

\* _track_position(order, signal): the bot after it, and whether Position()
\* raised
track_position(self, request, fill, signal) ==
    IF position_init_raises(TrackKeywords) THEN self
    ELSE [self EXCEPT !.active_positions =
             Update(@, request.symbol :>
                 [ symbol |-> request.symbol, side |-> "long",
                   quantity |-> request.amount, entry_price |-> fill.num,
                   stop_loss |-> Get(signal, Key.stop_loss, PyNone),
                   take_profit |-> Get(signal, Key.take_profit, PyNone) ])]

\* the dict d without key k
Without(d, k) == [x \in DOMAIN d \ {k} |-> d[x]]

\* _close_position(symbol), whose order the exchange answers with `fill`:
\* the order requests placed and the positions after it
close_position(positions, symbol, fill) ==
    IF symbol \notin DOMAIN positions
    THEN [placed |-> <<>>, positions |-> positions]
    ELSE [ placed |-> << OrderRequest(symbol,
                             IF positions[symbol].side = "long" THEN "sell" ELSE "buy",
                             positions[symbol].quantity) >>,
           positions |-> IF IsNone(fill) THEN positions ELSE Without(positions, symbol) ]

\* _execute_sell(signal): the order requests placed and the positions after it
execute_sell(positions, symbol, fills) ==
    IF symbol \notin DOMAIN positions
    THEN [placed |-> <<>>, positions |-> positions]
    ELSE LET request == OrderRequest(symbol, "sell", positions[symbol].quantity)
             closing == close_position(positions, symbol, fills[2])
         IN  IF IsNone(fills[1])
             THEN [placed |-> <<request>>, positions |-> positions]
             ELSE [placed |-> <<request>> \o closing.placed,
                   positions |-> closing.positions]

\* what the handling of a signal is recorded as
Handling(kind, signal, approved, size, placed, fill, raised) ==
    [ kind |-> kind, signal |-> signal, approved |-> approved,
      position_size |-> size, placed |-> placed, fill |-> fill,
      raised |-> raised ]

\* process_tradingview_signal(signal) with _process_signal(), _execute_buy(),
\* _execute_sell() and _close_position(); fills are the answers of the
\* exchange to the orders it places, in their order
process_tradingview_signal(self, signal, fills) ==
    LET counted == [self EXCEPT !.handled = @ + 1]
        symbol == signal[Key.symbol].str
        action == signal[Key.action].str
        risk == validate_trade(self, signal)
        size == calculate_position_size(signal)
        request == OrderRequest(symbol, "buy", size)
        sold == execute_sell(self.active_positions, symbol, fills)
        closed == close_position(self.active_positions, symbol, fills[1])
    IN  IF Key.symbol \notin DOMAIN signal \/ Key.action \notin DOMAIN signal
        THEN [counted EXCEPT !.last =
                 Handling("invalid", signal, FALSE, 0, <<>>, PyNone, FALSE)]
        ELSE IF risk = "raise"
        THEN [counted EXCEPT !.last =
                 Handling("processed", signal, FALSE, 0, <<>>, PyNone, TRUE)]
        ELSE IF risk = "rejected"
        THEN [counted EXCEPT !.last =
                 Handling("processed", signal, FALSE, 0, <<>>, PyNone, FALSE)]
        ELSE IF action \in {<<"b", "u", "y">>, <<"l", "o", "n", "g">>}
        THEN IF size <= 0
             THEN [counted EXCEPT !.last =
                      Handling("processed", signal, TRUE, size, <<>>, PyNone, FALSE)]
             ELSE IF IsNone(fills[1])
             THEN [counted EXCEPT !.last =
                      Handling("processed", signal, TRUE, size, <<request>>, PyNone,
                               FALSE)]
             ELSE [track_position(counted, request, fills[1], signal) EXCEPT !.last =
                      Handling("processed", signal, TRUE, size, <<request>>, fills[1],
                               position_init_raises(TrackKeywords))]
        ELSE IF action \in {<<"s", "e", "l", "l">>, <<"s", "h", "o", "r", "t">>}
        THEN [counted EXCEPT !.active_positions = sold.positions,
                             !.last = Handling("processed", signal, TRUE, 0,
                                               sold.placed, fills[1], FALSE)]
        ELSE IF action = <<"c", "l", "o", "s", "e">>
        THEN [counted EXCEPT !.active_positions = closed.positions,
                             !.last = Handling("processed", signal, TRUE, 0,
                                               closed.placed, fills[1], FALSE)]
        ELSE [counted EXCEPT !.last =
                 Handling("processed", signal, TRUE, 0, <<>>, PyNone, FALSE)]

\* the signals handed to process_tradingview_signal()
BotSignals ==
    { DictOf((Key.symbol :> s) @@ (Key.action :> a) @@ (Key.quantity :> q)) :
        s \in {Absent, Str(<<"B", "T", "C">>), Str(<<"E", "T", "H">>)},
        a \in {Absent, Str(<<"b", "u", "y">>), Str(<<"l", "o", "n", "g">>), Str(<<"s", "e", "l", "l">>), Str(<<"c", "l", "o", "s", "e">>),
               Str(<<"e", "x", "i", "t">>)},
        q \in {Absent, PyNone, Num(0), Num(50), Num(SETTINGS_MAX_POSITION_SIZE),
               Num(500)} }

\* One signal handled from its arrival to the end of its handling.
ProcessTradingViewSignal ==
    /\ tb.handled < MaxSignals
    /\ \E signal \in BotSignals, fills \in FillResults \X FillResults :
          tb' = process_tradingview_signal(tb, signal, fills)
    /\ UNCHANGED <<agent, fs, now, pushed, last, mode, bot, broker, bt, tick, loop>>

NextSignal == ProcessTradingViewSignal

SpecSignal == InitKey /\ [][NextSignal]_vars

\* C18: the handling of a buy signal that has symbol and action, that the
\* risk manager approved and whose position size is positive placed exactly
\* one order, and when the exchange filled it the handling ended without an
\* exception and active_positions holds for the symbol a position with the
\* order's amount and price.
C18_BuySignalOpensPosition ==
    (/\ tb.last.kind = "processed"
     /\ tb.last.signal[Key.action] = Str(<<"b", "u", "y">>)
     /\ tb.last.approved
     /\ tb.last.position_size > 0) =>
        /\ Len(tb.last.placed) = 1
        /\ ~IsNone(tb.last.fill) =>
              LET symbol == tb.last.signal[Key.symbol].str
              IN  /\ ~tb.last.raised
                  /\ symbol \in DOMAIN tb.active_positions
                  /\ tb.active_positions[symbol].quantity = tb.last.placed[1].amount
                  /\ tb.active_positions[symbol].entry_price = tb.last.fill.num

-----------------------------------------------------------------------------
(* SpecHeld: signals handled by a bot whose active_positions holds the     *)
(* position that _track_position() is written to record for a filled buy   *)
(* of BTC (one that the Position() call of C18 keeps the bot itself from   *)
(* recording).                                                              *)

HeldSymbol == <<"B", "T", "C">>

InitHeld ==
    /\ agent = NewAgent(QL_ALPHA, QL_GAMMA,
                        <<QL_EPSILON, QL_EPSILON_MIN, QL_EPSILON_DECAY>>,
                        MaxCapacity, 1)
    /\ InitFiles
    /\ bot = [entry_price |-> None]
    /\ broker = [qty |-> 0]
    /\ bt = [position |-> 0, entry_price |-> None, i |-> 0]
    /\ tick = NoTick
    /\ loop = NoLoop
    /\ tb = [NewTradingBot EXCEPT !.active_positions =
                HeldSymbol :>
                    [ symbol |-> HeldSymbol, side |-> "long",
                      quantity |-> Mul(SETTINGS_MAX_POSITION_SIZE, RISK_ADJUSTMENT),
                      entry_price |-> 50000 * Scale,
                      stop_loss |-> PyNone, take_profit |-> PyNone ]]
    /\ mode = "live"
    /\ pushed = <<>>
    /\ last = Idle

SpecHeld == InitHeld /\ [][NextSignal]_vars

-----------------------------------------------------------------------------
(* SpecTasks: the coroutines that run on the event loop next to start():   *)
(* the background tasks of the API, stop(), _manage_positions() of a cycle *)
(* and the handling of signals.  A coroutine runs alone from one await of  *)
(* the exchange to the next; `loop.tasks` holds where each one stands.     *)

\* coroutines spawned in one behaviour
MaxTasks == 2

\* the requests that end in _close_position(symbol): the task of
\* POST /api/v1/close-position, the task of POST /api/v1/emergency-stop,
\* _manage_positions() and a signal whose action is close
Closers == {"api", "emergency", "manage", "close"}

\* a coroutine that was scheduled and has not run yet
NewTask(kind) == [kind |-> kind, pc |-> "start", filled |-> FALSE, seen |-> PyNone]

\* _manage_positions(): `if current_price:` and the two tests of the price
\* against the stop loss and the take profit of the position it iterates on
manage_triggers(position, current_price) ==
    /\ Truthy(current_price)
    /\ \/ Truthy(position.stop_loss) /\ current_price.num <= position.stop_loss.num
       \/ Truthy(position.take_profit) /\ current_price.num >= position.take_profit.num

\* _close_position(symbol) up to `await place_order(...)`: it places its
\* order when the symbol is in active_positions and returns otherwise
close_position_begin(positions, symbol) ==
    IF symbol \in DOMAIN positions THEN "awaiting" ELSE "done"

\* _close_position(symbol) from the answer of place_order() on: `del
\* self.active_positions[symbol]` raises KeyError when the symbol is gone
close_position_end(positions, symbol, fill) ==
    IF IsNone(fill) THEN [pc |-> "done", positions |-> positions]
    ELSE IF symbol \in DOMAIN positions
    THEN [pc |-> "done", positions |-> Without(positions, symbol)]
    ELSE [pc |-> "raised", positions |-> positions]

\* A request arrives and its coroutine is scheduled: the close-position
\* endpoint answers 404 for a symbol without a position, _manage_positions()
\* runs inside a cycle of start().
SpawnTask ==
    /\ Len(loop.tasks) < MaxTasks
    /\ \E kind \in Closers \cup {"stop", "buy"} :
          /\ kind = "api" => HeldSymbol \in DOMAIN tb.active_positions
          /\ kind = "manage" => loop.pc = "tick"
          /\ kind = "stop" => loop.is_running
          /\ loop' = [loop EXCEPT !.tasks = Append(@, NewTask(kind))]
    /\ UNCHANGED <<agent, fs, now, pushed, last, mode, bot, broker, bt, tick, tb>>

\* A scheduled coroutine runs to its first await of the exchange: stop()
\* clears is_running and enters _emergency_stop(); _manage_positions() asks
\* for the price of a symbol it found; _execute_buy() places its order; the
\* others enter _close_position().
TaskStart ==
    /\ \E i \in DOMAIN loop.tasks :
          LET kind == loop.tasks[i].kind
              closing == close_position_begin(tb.active_positions, HeldSymbol)
          IN  /\ loop.tasks[i].pc = "start"
              /\ loop' = [loop EXCEPT
                     !.is_running = IF kind = "stop" THEN FALSE ELSE @,
                     !.signal = IF kind = "stop" THEN TRUE ELSE @,
                     !.tasks[i].seen =
                         IF kind = "manage" /\ closing = "awaiting"
                         THEN tb.active_positions[HeldSymbol] ELSE @,
                     !.tasks[i].pc =
                         IF kind = "buy" THEN "awaiting"
                         ELSE IF kind = "manage"
                         THEN (IF closing = "awaiting" THEN "pricing" ELSE "done")
                         ELSE closing]
    /\ UNCHANGED <<agent, fs, now, pushed, last, mode, bot, broker, bt, tick, tb>>

\* The exchange answers, with a price to get_current_price() and with an
\* order or None to place_order(), and the coroutine goes on: _manage_positions()
\* enters _close_position() when the price hit the stop loss or the take
\* profit; _execute_buy() calls _track_position() for an order that was
\* filled; _close_position() deletes the position whose order was filled.
TaskResume ==
    /\ \E i \in DOMAIN loop.tasks, fill \in FillResults :
          LET kind == loop.tasks[i].kind
              signal == (Key.symbol :> Str(HeldSymbol))
                        @@ (Key.action :> Str(<<"b", "u", "y">>))
              request == OrderRequest(HeldSymbol, "buy", calculate_position_size(signal))
              closed == close_position_end(tb.active_positions, HeldSymbol, fill)
          IN  IF loop.tasks[i].pc = "pricing"
              THEN /\ loop' = [loop EXCEPT !.tasks[i].pc =
                                  IF manage_triggers(loop.tasks[i].seen, fill)
                                  THEN close_position_begin(tb.active_positions, HeldSymbol)
                                  ELSE "done"]
                   /\ tb' = tb
              ELSE /\ loop.tasks[i].pc = "awaiting"
                   /\ IF kind = "buy"
                      THEN /\ tb' = IF IsNone(fill) THEN tb
                                    ELSE track_position(tb, request, fill, signal)
                           /\ loop' = [loop EXCEPT
                                  !.tasks[i].filled = ~IsNone(fill),
                                  !.tasks[i].pc =
                                      IF ~IsNone(fill) /\ position_init_raises(TrackKeywords)
                                      THEN "raised" ELSE "done"]
                      ELSE /\ tb' = [tb EXCEPT !.active_positions = closed.positions]
                           /\ loop' = [loop EXCEPT !.tasks[i].filled = ~IsNone(fill),
                                                   !.tasks[i].pc = closed.pc]
    /\ UNCHANGED <<agent, fs, now, pushed, last, mode, bot, broker, bt, tick>>

InitTasks ==
    /\ agent = NewAgent(QL_ALPHA, QL_GAMMA,
                        <<QL_EPSILON, QL_EPSILON_MIN, QL_EPSILON_DECAY>>,
                        MaxCapacity, 1)
    /\ InitFiles
    /\ bot = [entry_price |-> None]
    /\ broker = [qty |-> 0]
    /\ bt = [position |-> 0, entry_price |-> None, i |-> 0]
    /\ tick = NoTick
    /\ loop = [kind |-> "start", pc |-> "tick", is_running |-> TRUE,
               signal |-> FALSE, ticks |-> 0, errors |-> 0, raised |-> "none",
               tasks |-> <<>>]
    /\ tb = [NewTradingBot EXCEPT !.active_positions =
                HeldSymbol :>
                    [ symbol |-> HeldSymbol, side |-> "long",
                      quantity |-> Mul(SETTINGS_MAX_POSITION_SIZE, RISK_ADJUSTMENT),
                      entry_price |-> 50000 * Scale,
                      stop_loss |-> Num(49000 * Scale),
                      take_profit |-> Num(51000 * Scale) ]]
    /\ mode = "live"
    /\ pushed = <<>>
    /\ last = Idle

NextTasks ==
    SpawnTask \/ TaskStart \/ TaskResume \/ LoopTick \/ LoopSleepEnds \/ LoopBackoffEnds

SpecTasks == InitTasks /\ [][NextTasks]_vars

StopCompleted ==
    \E i \in DOMAIN loop.tasks :
        loop.tasks[i].kind = "stop" /\ loop.tasks[i].pc = "done"

-----------------------------------------------------------------------------
(* bot.py: the indicator functions (SpecIndicators).  A history is the     *)
(* sequence of its closes; a float is Some(x), x in thousandths, or NaN.   *)

\* bars of a history
MaxHistory == 4

\* the window of an indicator is drawn from 2..MaxWindow (the code's
\* defaults are 5, 14 and 10)
MaxWindow == 3

NaN == None

RECURSIVE SeqSum(_)
SeqSum(s) == IF s = <<>> THEN 0 ELSE Head(s) + SeqSum(Tail(s))

\* the integer part of the square root of a number below Scale * Scale
Sqrt(n) == CHOOSE r \in 0 .. Scale : r * r <= n /\ (r + 1) * (r + 1) > n

\* Series.diff(): NaN for the first bar, then close[i] - close[i-1]
diff(close) ==
    [i \in DOMAIN close |-> IF i = 1 THEN NaN ELSE Some(close[i] - close[i - 1])]

\* Series.pct_change(): NaN for the first bar, then close[i] / close[i-1] - 1
pct_change(close) ==
    [i \in DOMAIN close |->
        IF i = 1 THEN NaN
        ELSE Some(RoundDiv((close[i] - close[i - 1]) * Scale, close[i - 1]))]

\* the observations under the last window of Series.rolling(window)
last_window(s, window) ==
    SubSeq(s, Max2(1, Len(s) - window + 1), Len(s))

\* rolling(window) gives NaN unless its window holds `window` numbers
\* (min_periods is the window)
window_full(s, window) ==
    /\ Len(s) >= window
    /\ \A i \in DOMAIN last_window(s, window) : last_window(s, window)[i] # NaN

\* Series.rolling(window).mean().iloc[-1]
rolling_mean(s, window) ==
    IF ~window_full(s, window) THEN NaN
    ELSE LET w == last_window(s, window)
         IN  Some(RoundDiv(SeqSum([i \in DOMAIN w |-> w[i][1]]), window))

\* Series.rolling(window).std().iloc[-1]: the sample standard deviation
\* (ddof = 1), NaN for a window of one observation
rolling_std(s, window) ==
    IF ~window_full(s, window) \/ window < 2 THEN NaN
    ELSE LET w == last_window(s, window)
             mean == RoundDiv(SeqSum([i \in DOMAIN w |-> w[i][1]]), window)
             squares == [i \in DOMAIN w |-> (w[i][1] - mean) * (w[i][1] - mean)]
         IN  Some(Sqrt(RoundDiv(SeqSum(squares), window - 1)))

\* calculate_momentum(data, window)
calculate_momentum(data, window) ==
    IF data = <<>> \/ Len(data) < window + 1 THEN Some(0)
    ELSE Some(data[Len(data)] - data[Len(data) - window])

\* calculate_rsi(data, window)
calculate_rsi(data, window) ==
    IF data = <<>> \/ Len(data) < window + 1 THEN Some(50 * Scale)
    ELSE LET delta == diff(data)
             gains == [i \in DOMAIN delta |->
                          IF delta[i] # NaN /\ delta[i][1] > 0 THEN delta[i] ELSE Some(0)]
             losses == [i \in DOMAIN delta |->
                          IF delta[i] # NaN /\ delta[i][1] < 0
                          THEN Some(-delta[i][1]) ELSE Some(0)]
             gain == rolling_mean(gains, window)
             loss == rolling_mean(losses, window)
         IN  IF loss = Some(0) THEN Some(100 * Scale)
             ELSE IF gain = NaN \/ loss = NaN THEN NaN
             ELSE LET rs == RoundDiv(gain[1] * Scale, loss[1])
                  IN  Some(100 * Scale - RoundDiv(100 * Scale * Scale, Scale + rs))

\* calculate_volatility(data, window)
calculate_volatility(data, window) ==
    IF data = <<>> \/ Len(data) < window THEN Some(0)
    ELSE rolling_std(pct_change(data), window)

\* the histories: up to MaxHistory bars closing at the prices of the model
Closes == UNION { [1 .. n -> Prices] : n \in 0 .. MaxHistory }

\* The three indicators computed on one history, as trading_strategy() and
\* backtest() compute them before they build the state vector.
CalculateIndicators ==
    /\ last = Idle
    /\ \E data \in Closes, window \in 2 .. MaxWindow :
          last' = [op |-> "indicators", data |-> data, window |-> window,
                   momentum |-> calculate_momentum(data, window),
                   rsi |-> calculate_rsi(data, window),
                   volatility |-> calculate_volatility(data, window)]
    /\ UNCHANGED <<agent, fs, now, pushed>>
    /\ UNCHANGED botVars

NextIndicators == CalculateIndicators

SpecIndicators == InitKey /\ [][NextIndicators]_vars

\* C34: no indicator is NaN, whatever the length of the history; and on a
\* history of fewer than window + 1 bars momentum is 0.0, RSI is 50.0 and
\* volatility is 0.0.
C34_IndicatorDefaults ==
    last.op = "indicators" =>
        /\ last.momentum # NaN
        /\ last.rsi # NaN
        /\ last.volatility # NaN
        /\ Len(last.data) < last.window + 1 =>
              /\ last.momentum = Some(0)
              /\ last.rsi = Some(50 * Scale)
              /\ last.volatility = Some(0)

====
